---- MODULE Spec2Model ----
(***************************************************************************)
(* SimpleSwap (src/contracts/contracts/SimpleSwap.sol): a constant-product *)
(* AMM over pairs of ERC-20 tokens.  The model keeps the contract's        *)
(* storage (pools, liquidity), the token ledger it calls (balanceOf,       *)
(* allowance), the block timestamp and a record of the last successful     *)
(* call (its arguments, what it returned, the state it started from).      *)
(*                                                                         *)
(* Under Spec every external function is one action: a transaction runs   *)
(* to completion and a revert anywhere in it restores the whole pre-call   *)
(* state.  Under SpecCalls a call is taken apart into the effects it makes *)
(* in the order of the code (stores, external token calls), the call in    *)
(* flight is kept in frame, ReentrancyGuard's flag in _status, and a token *)
(* that has been handed control may call back into the contract (nested).  *)
(* Under SpecQuote the pure function getAmountOut is run alone on inputs   *)
(* drawn at the start, and under SpecSqrt the internal sqrt, through the   *)
(* wrapper TestHelper.testSqrt.                                            *)
(* The explored transactions share one block, so block.timestamp (now) is  *)
(* the same for all of them; deadlines are chosen before, at and after it. *)
(*                                                                         *)
(* Widths.  Reserves, totalLiquidity and positions are uint112 in the      *)
(* contract; the model keeps the arithmetic (an explicit uint112(x) cast   *)
(* truncates mod 2^w, a uint112 += is checked) but scales the width w to   *)
(* UINT112_BITS so that TLC can enumerate it.  uint256 values are plain    *)
(* integers: the inputs are bounded far below the point where a scaled     *)
(* uint256 operation could overflow.                                       *)
(***************************************************************************)
EXTENDS Integers, Sequences, FiniteSets, TLC

VARIABLES pools, liquidity, balanceOf, allowance, now, last, txs,
          _status, frame, nested

vars == <<pools, liquidity, balanceOf, allowance, now, last, txs,
          _status, frame, nested>>

----------------------------------------------------------------------------
(* Bounds of the model *)

\* width of the contract's uint112, scaled down
UINT112_BITS == 3
\* successful transactions explored from the initial state
MaxTxs == 2
\* largest amount and reserve given to getAmountOut when it is run alone
MaxQuote == 6
\* largest value given to sqrt when it is run alone
MaxRoot == 10000

----------------------------------------------------------------------------
(* Addresses *)

\* address(0)
ZERO == 0
\* the two ERC-20 tokens (TestTokenA, TestTokenB); addresses are ordered
TokenA == 1
TokenB == 2
Tokens == {TokenA, TokenB}
\* externally owned accounts (owner, user of the test fixture)
Owner == 3
User == 4
Users == {Owner, User}
\* address(this)
THIS == 5
Holders == Users \cup {THIS}
\* every address a token argument may take
TokenArgs == {ZERO} \cup Tokens

\* block.timestamp of the block the explored transactions are mined in
BLOCK_TIME == 2

\* type(uint112).max
MAX_UINT112 == 2 ^ UINT112_BITS - 1
\* tokens minted to each user before the first call: enough to overfill a reserve
InitBalance == 2 * (MAX_UINT112 + 1)
\* type(uint256).max: the unlimited allowance of ERC-20, never decremented
MAX_UINT256 == 2 ^ 30

\* the explicit narrowing cast uint112(x): truncates silently
uint112(x) == x % (MAX_UINT112 + 1)

----------------------------------------------------------------------------
(* Pure helpers of the contract *)

\* the loop of sqrt: while (x < z) { z = x; x = (y / x + x) / 2; }
RECURSIVE sqrtLoop(_, _, _)
sqrtLoop(y, z, x) ==
    IF x < z THEN sqrtLoop(y, x, ((y \div x) + x) \div 2) ELSE z

\* sqrt returning 0 for the values it does not loop on
sqrt_ZeroBelowFour(y) ==
    IF y > 3 THEN sqrtLoop(y, y, (y \div 2) + 1)
    ELSE 0

\* sqrt taking its first guess as the result
sqrt_NoLoop(y) ==
    IF y > 3 THEN (y \div 2) + 1
    ELSE IF y # 0 THEN 1
    ELSE 0

sqrt(y) ==
    IF y > 3 THEN sqrtLoop(y, y, (y \div 2) + 1)
    ELSE IF y # 0 THEN 1
    ELSE 0

\* sortTokens that checks its arguments and leaves them in the order given
sortTokens_Unsorted(tokenA, tokenB) ==
    IF tokenA = tokenB THEN [err |-> "SS:IA", token0 |-> ZERO, token1 |-> ZERO]
    ELSE IF tokenA = ZERO \/ tokenB = ZERO
         THEN [err |-> "SS:IZA", token0 |-> ZERO, token1 |-> ZERO]
         ELSE [err |-> "", token0 |-> tokenA, token1 |-> tokenB]

sortTokens(tokenA, tokenB) ==
    IF tokenA = tokenB THEN [err |-> "SS:IA", token0 |-> ZERO, token1 |-> ZERO]
    ELSE LET token0 == IF tokenA < tokenB THEN tokenA ELSE tokenB
             token1 == IF tokenA < tokenB THEN tokenB ELSE tokenA
         IN  IF token0 = ZERO
             THEN [err |-> "SS:IZA", token0 |-> ZERO, token1 |-> ZERO]
             ELSE [err |-> "", token0 |-> token0, token1 |-> token1]

\* getAmountOut without the 0.3% fee
getAmountOut_NoFee(amountIn, reserveIn, reserveOut) ==
    IF ~(amountIn > 0) THEN [err |-> "SS:INA", amountOut |-> 0]
    ELSE IF ~(reserveIn > 0 /\ reserveOut > 0) THEN [err |-> "SS:IL", amountOut |-> 0]
    ELSE [err |-> "", amountOut |-> (amountIn * reserveOut) \div (reserveIn + amountIn)]

\* getAmountOut rounding the quotient up
getAmountOut_RoundUp(amountIn, reserveIn, reserveOut) ==
    IF ~(amountIn > 0) THEN [err |-> "SS:INA", amountOut |-> 0]
    ELSE IF ~(reserveIn > 0 /\ reserveOut > 0) THEN [err |-> "SS:IL", amountOut |-> 0]
    ELSE LET amountInWithFee == amountIn * 997
             numerator == amountInWithFee * reserveOut
             denominator == (reserveIn * 1000) + amountInWithFee
         IN  [err |-> "", amountOut |-> (numerator + denominator - 1) \div denominator]

\* getAmountOut with the two reserves exchanged in the quotient
getAmountOut_ReservesExchanged(amountIn, reserveIn, reserveOut) ==
    IF ~(amountIn > 0) THEN [err |-> "SS:INA", amountOut |-> 0]
    ELSE IF ~(reserveIn > 0 /\ reserveOut > 0) THEN [err |-> "SS:IL", amountOut |-> 0]
    ELSE LET amountInWithFee == amountIn * 997
             numerator == amountInWithFee * reserveIn
             denominator == (reserveOut * 1000) + amountInWithFee
         IN  [err |-> "", amountOut |-> numerator \div denominator]

\* getAmountOut whose denominator leaves out the input reserve
getAmountOut_NoReserveIn(amountIn, reserveIn, reserveOut) ==
    IF ~(amountIn > 0) THEN [err |-> "SS:INA", amountOut |-> 0]
    ELSE IF ~(reserveIn > 0 /\ reserveOut > 0) THEN [err |-> "SS:IL", amountOut |-> 0]
    ELSE LET amountInWithFee == amountIn * 997
             numerator == amountInWithFee * reserveOut
             denominator == amountInWithFee
         IN  [err |-> "", amountOut |-> numerator \div denominator]

getAmountOut(amountIn, reserveIn, reserveOut) ==
    IF ~(amountIn > 0) THEN [err |-> "SS:INA", amountOut |-> 0]
    ELSE IF ~(reserveIn > 0 /\ reserveOut > 0) THEN [err |-> "SS:IL", amountOut |-> 0]
    ELSE LET amountInWithFee == amountIn * 997
             numerator == amountInWithFee * reserveOut
             denominator == (reserveIn * 1000) + amountInWithFee
         IN  [err |-> "", amountOut |-> numerator \div denominator]

----------------------------------------------------------------------------
(* Contract storage and the token ledger, as one value of state *)

\* the storage and ledger as they are now
Cur == [pools |-> pools, liquidity |-> liquidity,
        balanceOf |-> balanceOf, allowance |-> allowance]

NoRet == [amountA |-> 0, amountB |-> 0, liquidityMinted |-> 0, amountOut |-> 0]

\* one effect of a call, in the order the code makes them: ev is "write" (a
\* store to pools or liquidity), "transferFrom" or "transfer" (an external
\* call to a token), st the storage and ledger once it is made
Effect(ev, st) == [ev |-> ev, st |-> st]

\* a revert of a call started in st0: every write of the transaction is
\* undone; steps are the effects it had made before it reverted
Revert(st0, code, steps) == [err |-> code, st |-> st0, ret |-> NoRet, steps |-> steps]

\* a return: st is the state the call leaves, steps the effects that led to it
Return(st, ret, steps) == [err |-> "", st |-> st, ret |-> ret, steps |-> steps]

\* a transferFrom that credits the recipient and takes nothing from the payer
safeTransferFrom_NoDebit(st, token, from, to, value) ==
    [err |-> "", st |-> [st EXCEPT !.balanceOf[token][to] = @ + value]]

\* IERC20(token).safeTransferFrom(from, to, value), called by the contract:
\* the allowance from gave to the contract is spent first, then the balance
safeTransferFrom(st, token, from, to, value) ==
    IF st.allowance[token][from] # MAX_UINT256 /\ st.allowance[token][from] < value
    THEN [err |-> "ERC20InsufficientAllowance", st |-> st]
    ELSE IF st.balanceOf[token][from] < value
    THEN [err |-> "ERC20InsufficientBalance", st |-> st]
    ELSE [err |-> "",
          st |-> [st EXCEPT
                    !.allowance[token][from] =
                        IF @ = MAX_UINT256 THEN @ ELSE @ - value,
                    !.balanceOf[token][from] = @ - value,
                    !.balanceOf[token][to] = @ + value]]

\* IERC20(token).safeTransfer(to, value), called by the contract
safeTransfer(st, token, to, value) ==
    IF st.balanceOf[token][THIS] < value
    THEN [err |-> "ERC20InsufficientBalance", st |-> st]
    ELSE [err |-> "",
          st |-> [st EXCEPT !.balanceOf[token][THIS] = @ - value,
                            !.balanceOf[token][to] = @ + value]]

----------------------------------------------------------------------------
(* View functions *)

\* getReserves returning the reserves in canonical order whatever the arguments
getReserves_Canonical(st, tokenA, tokenB) ==
    LET s == sortTokens(tokenA, tokenB) IN
    IF s.err # "" THEN [err |-> s.err, reserveA |-> 0, reserveB |-> 0]
    ELSE LET pool == st.pools[<<s.token0, s.token1>>]
         IN  IF ~(pool.reserveA > 0 /\ pool.reserveB > 0)
             THEN [err |-> "SS:RNI", reserveA |-> 0, reserveB |-> 0]
             ELSE [err |-> "", reserveA |-> pool.reserveA, reserveB |-> pool.reserveB]

\* getReserves without its require on the reserves
getReserves_Unchecked(st, tokenA, tokenB) ==
    LET s == sortTokens(tokenA, tokenB) IN
    IF s.err # "" THEN [err |-> s.err, reserveA |-> 0, reserveB |-> 0]
    ELSE LET pool == st.pools[<<s.token0, s.token1>>]
         IN  IF tokenA = s.token0
             THEN [err |-> "", reserveA |-> pool.reserveA, reserveB |-> pool.reserveB]
             ELSE [err |-> "", reserveA |-> pool.reserveB, reserveB |-> pool.reserveA]

getReserves(st, tokenA, tokenB) ==
    LET s == sortTokens(tokenA, tokenB) IN
    IF s.err # "" THEN [err |-> s.err, reserveA |-> 0, reserveB |-> 0]
    ELSE LET pool == st.pools[<<s.token0, s.token1>>]
             reserve0 == pool.reserveA
             reserve1 == pool.reserveB
         IN  IF ~(reserve0 > 0 /\ reserve1 > 0)
             THEN [err |-> "SS:RNI", reserveA |-> 0, reserveB |-> 0]
             ELSE IF tokenA = s.token0
                  THEN [err |-> "", reserveA |-> reserve0, reserveB |-> reserve1]
                  ELSE [err |-> "", reserveA |-> reserve1, reserveB |-> reserve0]

\* the fixed-point multiplier of getPrice (1e18 in the contract), scaled
\* down with the width of the reserves
PRICE_SCALE == 10 ^ 6

\* getPrice dividing token1's reserve by token0's whatever the order asked
getPrice_Canonical(st, tokenA, tokenB) ==
    LET s == sortTokens(tokenA, tokenB) IN
    IF s.err # "" THEN [err |-> s.err, price |-> 0]
    ELSE LET pool == st.pools[<<s.token0, s.token1>>]
         IN  IF ~(pool.reserveA > 0 /\ pool.reserveB > 0)
             THEN [err |-> "SS:RNI", price |-> 0]
             ELSE [err |-> "", price |-> (pool.reserveB * PRICE_SCALE) \div pool.reserveA]

getPrice(st, tokenA, tokenB) ==
    LET s == sortTokens(tokenA, tokenB) IN
    IF s.err # "" THEN [err |-> s.err, price |-> 0]
    ELSE LET pool == st.pools[<<s.token0, s.token1>>]
             reserveA == pool.reserveA
             reserveB == pool.reserveB
         IN  IF ~(reserveA > 0 /\ reserveB > 0)
             THEN [err |-> "SS:RNI", price |-> 0]
             ELSE IF tokenA = s.token0
                  THEN [err |-> "", price |-> (reserveB * PRICE_SCALE) \div reserveA]
                  ELSE [err |-> "", price |-> (reserveA * PRICE_SCALE) \div reserveB]

getLiquidity(st, tokenA, tokenB, user) ==
    LET s == sortTokens(tokenA, tokenB) IN
    IF s.err # "" THEN [err |-> s.err, value |-> 0]
    ELSE [err |-> "", value |-> st.liquidity[<<s.token0, s.token1>>][user]]

----------------------------------------------------------------------------
(* addLiquidity *)

\* addAmounts taking amountADesired as the token0 amount on an empty pool too
addAmounts_Unmapped(p, t0, reserve0, reserve1) ==
    [err |-> "", amount0 |-> p.amountADesired, amount1 |-> p.amountBDesired]

\* the amounts _addLiquidity decides to pull, in canonical order
\* (lines 335-352); p.amountADesired is used as the token0 amount and
\* p.amountBDesired as the token1 amount whenever the pool has reserves
addAmounts(p, t0, reserve0, reserve1) ==
    IF reserve0 = 0 /\ reserve1 = 0
    THEN IF p.tokenA = t0
         THEN [err |-> "", amount0 |-> p.amountADesired, amount1 |-> p.amountBDesired]
         ELSE [err |-> "", amount0 |-> p.amountBDesired, amount1 |-> p.amountADesired]
    ELSE IF reserve0 = 0 THEN [err |-> "Panic(0x12)", amount0 |-> 0, amount1 |-> 0]
    ELSE LET amount1Optimal == (p.amountADesired * reserve1) \div reserve0 IN
         IF amount1Optimal <= p.amountBDesired
         THEN IF ~(amount1Optimal >= p.amountBMin)
              THEN [err |-> "SS:INB", amount0 |-> 0, amount1 |-> 0]
              ELSE [err |-> "", amount0 |-> p.amountADesired, amount1 |-> amount1Optimal]
         ELSE LET amount0Optimal == (p.amountBDesired * reserve0) \div reserve1 IN
              IF ~(amount0Optimal <= p.amountADesired)
              THEN [err |-> "SS:INA", amount0 |-> 0, amount1 |-> 0]
              ELSE IF ~(amount0Optimal >= p.amountAMin)
              THEN [err |-> "SS:INA", amount0 |-> 0, amount1 |-> 0]
              ELSE [err |-> "", amount0 |-> amount0Optimal, amount1 |-> p.amountBDesired]

\* the shares _addLiquidity mints (lines 358-370), before any narrowing
addShares(amount0, amount1, reserve0, reserve1, totalLiquidity) ==
    IF totalLiquidity = 0
    THEN LET newLiquidityMinted == sqrt(amount0 * amount1) IN
         IF ~(newLiquidityMinted > 0) THEN [err |-> "SS:ILM", minted |-> 0]
         ELSE [err |-> "", minted |-> newLiquidityMinted]
    ELSE IF reserve0 = 0 \/ reserve1 = 0 THEN [err |-> "Panic(0x12)", minted |-> 0]
    ELSE LET liquidity0 == (amount0 * totalLiquidity) \div reserve0
             liquidity1 == (amount1 * totalLiquidity) \div reserve1
             newLiquidityMinted == IF liquidity0 < liquidity1 THEN liquidity0 ELSE liquidity1
         IN  IF ~(newLiquidityMinted > 0) THEN [err |-> "SS:ILM", minted |-> 0]
             ELSE [err |-> "", minted |-> newLiquidityMinted]

\* the storage writes of _addLiquidity (lines 372-378)
addCommit(st, key, to, reserve0, reserve1, totalLiquidity, amount0, amount1, minted) ==
    IF st.liquidity[key][to] + uint112(minted) > MAX_UINT112
    THEN [err |-> "Panic(0x11)", st |-> st]
    ELSE [err |-> "",
          st |-> [st EXCEPT
                    !.pools[key] = [reserveA |-> uint112(reserve0 + amount0),
                                    reserveB |-> uint112(reserve1 + amount1),
                                    totalLiquidity |-> uint112(totalLiquidity + minted)],
                    !.liquidity[key][to] = @ + uint112(minted)]]

_addLiquidity(st, sender, p) ==
    IF p.tokenA = p.tokenB THEN Revert(st, "SS:IA", <<>>)
    ELSE IF ~(p.amountADesired > 0 /\ p.amountBDesired > 0) THEN Revert(st, "SS:INA", <<>>)
    ELSE IF ~(now <= p.deadline) THEN Revert(st, "SS:EXP", <<>>)
    ELSE IF p.to = ZERO THEN Revert(st, "SS:IR", <<>>)
    ELSE
    LET s == sortTokens(p.tokenA, p.tokenB) IN
    IF s.err # "" THEN Revert(st, s.err, <<>>) ELSE
    LET t0 == s.token0
        t1 == s.token1
        key == <<t0, t1>>
        pool == st.pools[key]
        reserve0 == pool.reserveA
        reserve1 == pool.reserveB
        totalLiquidity == pool.totalLiquidity
        a == addAmounts(p, t0, reserve0, reserve1)
    IN
    IF a.err # "" THEN Revert(st, a.err, <<>>) ELSE
    LET x0 == safeTransferFrom(st, t0, sender, THIS, a.amount0)
        s0 == <<Effect("transferFrom", x0.st)>>
    IN
    IF x0.err # "" THEN Revert(st, x0.err, <<>>) ELSE
    LET x1 == safeTransferFrom(x0.st, t1, sender, THIS, a.amount1)
        s1 == Append(s0, Effect("transferFrom", x1.st))
    IN
    IF x1.err # "" THEN Revert(st, x1.err, s0) ELSE
    LET m == addShares(a.amount0, a.amount1, reserve0, reserve1, totalLiquidity) IN
    IF m.err # "" THEN Revert(st, m.err, s1) ELSE
    LET w == addCommit(x1.st, key, p.to, reserve0, reserve1, totalLiquidity,
                       a.amount0, a.amount1, m.minted)
    IN
    IF w.err # "" THEN Revert(st, w.err, s1) ELSE
    Return(w.st,
           [NoRet EXCEPT
              !.amountA = IF p.tokenA = t0 THEN a.amount0 ELSE a.amount1,
              !.amountB = IF p.tokenA = t0 THEN a.amount1 ELSE a.amount0,
              !.liquidityMinted = m.minted],
           Append(s1, Effect("write", w.st)))

addLiquidity(st, sender, p) ==
    IF ~(p.tokenA # ZERO /\ p.tokenB # ZERO) THEN Revert(st, "SS:IZA", <<>>)
    ELSE IF ~(p.to # ZERO) THEN Revert(st, "SS:IR", <<>>)
    ELSE IF ~(p.amountADesired > 0 /\ p.amountBDesired > 0) THEN Revert(st, "SS:INA", <<>>)
    ELSE IF ~(p.deadline >= now) THEN Revert(st, "SS:EXP", <<>>)
    ELSE _addLiquidity(st, sender, p)

----------------------------------------------------------------------------
(* removeLiquidity *)

\* removeCommit leaving the caller's position as it was
removeCommit_KeepPosition(st, key, sender, reserve0, reserve1, totalLiquidity, userLiquidity, amount0, amount1, liquidityAmt) ==
    [err |-> "",
     st |-> [st EXCEPT
               !.pools[key] = [reserveA |-> uint112(reserve0 - amount0),
                               reserveB |-> uint112(reserve1 - amount1),
                               totalLiquidity |-> uint112(totalLiquidity - liquidityAmt)]]]

\* removeCommit burning the shares and leaving the reserves as they were
removeCommit_KeepReserves(st, key, sender, reserve0, reserve1, totalLiquidity, userLiquidity, amount0, amount1, liquidityAmt) ==
    IF totalLiquidity - liquidityAmt < 0 \/ userLiquidity - uint112(liquidityAmt) < 0
    THEN [err |-> "Panic(0x11)", st |-> st]
    ELSE [err |-> "",
          st |-> [st EXCEPT
                    !.pools[key].totalLiquidity = uint112(totalLiquidity - liquidityAmt),
                    !.liquidity[key][sender] = userLiquidity - uint112(liquidityAmt)]]

\* the storage writes of _removeLiquidity (lines 424-427): the uint256
\* subtractions are checked, the casts are not
removeCommit(st, key, sender, reserve0, reserve1, totalLiquidity, userLiquidity, amount0, amount1, liquidityAmt) ==
    IF reserve0 - amount0 < 0 \/ reserve1 - amount1 < 0
       \/ totalLiquidity - liquidityAmt < 0
       \/ userLiquidity - uint112(liquidityAmt) < 0
    THEN [err |-> "Panic(0x11)", st |-> st]
    ELSE [err |-> "",
          st |-> [st EXCEPT
                    !.pools[key] = [reserveA |-> uint112(reserve0 - amount0),
                                    reserveB |-> uint112(reserve1 - amount1),
                                    totalLiquidity |-> uint112(totalLiquidity - liquidityAmt)],
                    !.liquidity[key][sender] = userLiquidity - uint112(liquidityAmt)]]

_removeLiquidity(st, sender, p) ==
    LET s == sortTokens(p.tokenA, p.tokenB) IN
    IF s.err # "" THEN Revert(st, s.err, <<>>) ELSE
    LET t0 == s.token0
        t1 == s.token1
        key == <<t0, t1>>
        pool == st.pools[key]
        reserve0 == pool.reserveA
        reserve1 == pool.reserveB
        totalLiquidity == pool.totalLiquidity
        userLiquidity == st.liquidity[key][sender]
    IN
    IF ~(totalLiquidity > 0) THEN Revert(st, "SS:ITL", <<>>)
    ELSE IF ~(userLiquidity >= p.liquidityAmt) THEN Revert(st, "SS:ILB", <<>>)
    ELSE
    LET amount0 == (p.liquidityAmt * reserve0) \div totalLiquidity
        amount1 == (p.liquidityAmt * reserve1) \div totalLiquidity
    IN
    IF ~(amount0 >= p.amountAMin) THEN Revert(st, "SS:INA", <<>>)
    ELSE IF ~(amount1 >= p.amountBMin) THEN Revert(st, "SS:INB", <<>>)
    ELSE
    LET w == removeCommit(st, key, sender, reserve0, reserve1, totalLiquidity,
                          userLiquidity, amount0, amount1, p.liquidityAmt)
        s0 == <<Effect("write", w.st)>>
    IN
    IF w.err # "" THEN Revert(st, w.err, <<>>) ELSE
    LET x0 == safeTransfer(w.st, t0, p.to, amount0)
        s1 == Append(s0, Effect("transfer", x0.st))
    IN
    IF x0.err # "" THEN Revert(st, x0.err, s0) ELSE
    LET x1 == safeTransfer(x0.st, t1, p.to, amount1) IN
    IF x1.err # "" THEN Revert(st, x1.err, s1) ELSE
    Return(x1.st,
           [NoRet EXCEPT
              !.amountA = IF p.tokenA = t0 THEN amount0 ELSE amount1,
              !.amountB = IF p.tokenA = t0 THEN amount1 ELSE amount0],
           Append(s1, Effect("transfer", x1.st)))

\* removeLiquidity without its deadline check
removeLiquidity_NoDeadline(st, sender, p) ==
    IF ~(p.tokenA # ZERO /\ p.tokenB # ZERO) THEN Revert(st, "SS:IZA", <<>>)
    ELSE IF ~(p.to # ZERO) THEN Revert(st, "SS:IR", <<>>)
    ELSE IF ~(p.liquidityAmt > 0) THEN Revert(st, "SS:IL", <<>>)
    ELSE _removeLiquidity(st, sender, p)

\* removeLiquidity burning from the position of the recipient
removeLiquidity_FromRecipient(st, sender, p) ==
    IF ~(p.tokenA # ZERO /\ p.tokenB # ZERO) THEN Revert(st, "SS:IZA", <<>>)
    ELSE IF ~(p.to # ZERO) THEN Revert(st, "SS:IR", <<>>)
    ELSE IF ~(p.liquidityAmt > 0) THEN Revert(st, "SS:IL", <<>>)
    ELSE IF ~(p.deadline >= now) THEN Revert(st, "SS:EXP", <<>>)
    ELSE _removeLiquidity(st, p.to, p)

removeLiquidity(st, sender, p) ==
    IF ~(p.tokenA # ZERO /\ p.tokenB # ZERO) THEN Revert(st, "SS:IZA", <<>>)
    ELSE IF ~(p.to # ZERO) THEN Revert(st, "SS:IR", <<>>)
    ELSE IF ~(p.liquidityAmt > 0) THEN Revert(st, "SS:IL", <<>>)
    ELSE IF ~(p.deadline >= now) THEN Revert(st, "SS:EXP", <<>>)
    ELSE _removeLiquidity(st, sender, p)

----------------------------------------------------------------------------
(* swapExactTokensForTokens *)

\* the slippage require without its bound
sufficientOutput_Off(amountOut, amountOutMin) == TRUE

\* require(amountOut >= amountOutMin, "SS:IOA")
sufficientOutput(amountOut, amountOutMin) == amountOut >= amountOutMin

_update(st, tokenA, tokenB, reserveA, reserveB) ==
    LET s == sortTokens(tokenA, tokenB) IN
    IF s.err # "" THEN [err |-> s.err, st |-> st]
    ELSE IF ~(reserveA <= MAX_UINT112 /\ reserveB <= MAX_UINT112)
    THEN [err |-> "SS:OVERFLOW", st |-> st]
    ELSE LET newReserveA == uint112(IF tokenA = s.token0 THEN reserveA ELSE reserveB)
             newReserveB == uint112(IF tokenA = s.token0 THEN reserveB ELSE reserveA)
         IN  [err |-> "",
              st |-> [st EXCEPT !.pools[<<s.token0, s.token1>>].reserveA = newReserveA,
                                !.pools[<<s.token0, s.token1>>].reserveB = newReserveB]]

swapExactTokensForTokens(st, sender, p) ==
    IF ~(Len(p.path) = 2) THEN Revert(st, "SS:IPL", <<>>)
    ELSE IF ~(p.to # ZERO) THEN Revert(st, "SS:IR", <<>>)
    ELSE IF ~(p.path[1] # p.path[2]) THEN Revert(st, "SS:IA", <<>>)
    ELSE IF ~(p.amountIn > 0) THEN Revert(st, "SS:INA", <<>>)
    ELSE IF ~(p.deadline >= now) THEN Revert(st, "SS:EXP", <<>>)
    ELSE
    LET input == p.path[1]
        output == p.path[2]
        r == getReserves(st, input, output)
    IN
    IF r.err # "" THEN Revert(st, r.err, <<>>) ELSE
    LET reserveIn == r.reserveA
        reserveOut == r.reserveB
        g == getAmountOut(p.amountIn, reserveIn, reserveOut)
    IN
    IF g.err # "" THEN Revert(st, g.err, <<>>)
    ELSE IF ~sufficientOutput(g.amountOut, p.amountOutMin) THEN Revert(st, "SS:IOA", <<>>)
    ELSE IF reserveOut - g.amountOut < 0 THEN Revert(st, "Panic(0x11)", <<>>)
    ELSE
    LET u == _update(st, input, output, reserveIn + p.amountIn, reserveOut - g.amountOut)
        s0 == <<Effect("write", u.st)>>
    IN
    IF u.err # "" THEN Revert(st, u.err, <<>>) ELSE
    LET x0 == safeTransferFrom(u.st, input, sender, THIS, p.amountIn)
        s1 == Append(s0, Effect("transferFrom", x0.st))
    IN
    IF x0.err # "" THEN Revert(st, x0.err, s0) ELSE
    LET x1 == safeTransfer(x0.st, output, p.to, g.amountOut) IN
    IF x1.err # "" THEN Revert(st, x1.err, s1) ELSE
    Return(x1.st, [NoRet EXCEPT !.amountA = p.amountIn, !.amountOut = g.amountOut],
           Append(s1, Effect("transfer", x1.st)))

----------------------------------------------------------------------------
(* Inputs of the external calls *)

\* the pair in both orders; identical tokens; a zero token on either side
TokenPairs == {<<TokenA, TokenB>>, <<TokenB, TokenA>>}
BadTokenPairs == {<<TokenA, TokenA>>, <<ZERO, TokenB>>, <<TokenA, ZERO>>}

\* desired deposits: small amounts, one that does not fit a reserve, and
\* one pair whose geometric mean does not fit the share total
DesiredPairs ==
    ({1, 2, 4} \X {1, 2, 4})
    \cup {<<MAX_UINT112 + 1, 2>>, <<MAX_UINT112 + 1, 2 * (MAX_UINT112 + 1)>>}
\* caller minimums of addLiquidity and removeLiquidity: (amountAMin, amountBMin)
MinPairs == {<<0, 0>>, <<2, 0>>, <<0, 2>>}
SwapAmounts == {1, 2, 4}
SwapMins == {0, 1, 2}

AddP(tp, dp, mp, to, deadline) ==
    [tokenA |-> tp[1], tokenB |-> tp[2],
     amountADesired |-> dp[1], amountBDesired |-> dp[2],
     amountAMin |-> mp[1], amountBMin |-> mp[2], to |-> to, deadline |-> deadline]

\* what sender may pass to addLiquidity: every order, deposit and minimum
\* with itself as recipient; every deposit with the other user as recipient;
\* and the calls that break one precondition each
AddParams(sender) ==
    { AddP(tp, dp, mp, sender, now) :
        tp \in TokenPairs, dp \in DesiredPairs, mp \in MinPairs }
    \cup { AddP(<<TokenA, TokenB>>, dp, <<0, 0>>, to, now + 1) :
             dp \in DesiredPairs, to \in Users \ {sender} }
    \cup { AddP(tp, <<2, 2>>, <<0, 0>>, sender, now) : tp \in BadTokenPairs }
    \cup { AddP(<<TokenA, TokenB>>, dp, <<0, 0>>, sender, now) :
             dp \in {<<0, 2>>, <<2, 0>>} }
    \cup { AddP(<<TokenA, TokenB>>, <<2, 2>>, <<0, 0>>, ZERO, now),
           AddP(<<TokenA, TokenB>>, <<2, 2>>, <<0, 0>>, sender, now - 1) }

RemoveP(tp, liquidityAmt, mp, to, deadline) ==
    [tokenA |-> tp[1], tokenB |-> tp[2], liquidityAmt |-> liquidityAmt,
     amountAMin |-> mp[1], amountBMin |-> mp[2], to |-> to, deadline |-> deadline]

\* share amounts sender may ask to burn: small ones, its whole position, one more
RemoveAmounts(sender) ==
    {1, 2} \cup { liquidity[<<TokenA, TokenB>>][sender] + d : d \in {0, 1} }

RemoveParams(sender) ==
    { RemoveP(tp, l, mp, sender, now) :
        tp \in TokenPairs, l \in RemoveAmounts(sender), mp \in MinPairs }
    \cup { RemoveP(<<TokenA, TokenB>>, l, <<0, 0>>, to, now + 1) :
             l \in RemoveAmounts(sender), to \in Users \ {sender} }
    \cup { RemoveP(tp, 1, <<0, 0>>, sender, now) : tp \in BadTokenPairs }
    \cup { RemoveP(<<TokenA, TokenB>>, 0, <<0, 0>>, sender, now),
           RemoveP(<<TokenA, TokenB>>, 1, <<0, 0>>, ZERO, now),
           RemoveP(<<TokenA, TokenB>>, 1, <<0, 0>>, sender, now - 1) }

SwapP(amountIn, amountOutMin, path, to, deadline) ==
    [amountIn |-> amountIn, amountOutMin |-> amountOutMin, path |-> path,
     to |-> to, deadline |-> deadline]

SwapParams(sender) ==
    { SwapP(ai, m, tp, sender, now) :
        ai \in SwapAmounts, m \in SwapMins, tp \in TokenPairs }
    \cup { SwapP(ai, 0, tp, to, now + 1) :
             ai \in SwapAmounts, tp \in TokenPairs, to \in Users \ {sender} }
    \cup { SwapP(2, 0, tp, sender, now) :
             tp \in BadTokenPairs \cup {<<TokenA>>, <<TokenA, TokenB, TokenA>>} }
    \cup { SwapP(0, 0, <<TokenA, TokenB>>, sender, now),
           SwapP(MAX_UINT112 + 1, 0, <<TokenA, TokenB>>, sender, now),
           SwapP(2, 0, <<TokenA, TokenB>>, ZERO, now),
           SwapP(2, 0, <<TokenA, TokenB>>, sender, now - 1) }

----------------------------------------------------------------------------
(* The state machine *)

EmptyPool == [reserveA |-> 0, reserveB |-> 0, totalLiquidity |-> 0]

\* ReentrancyGuard._status
NOT_ENTERED == "NOT_ENTERED"
ENTERED == "ENTERED"
\* no call is in flight; no nested call has been tried
NoFrame == [op |-> "none"]
NoNested == [op |-> "none"]

Init ==
    /\ pools = [k \in TokenArgs \X TokenArgs |-> EmptyPool]
    /\ liquidity = [k \in TokenArgs \X TokenArgs |-> [u \in Users |-> 0]]
    /\ balanceOf = [t \in Tokens |-> [h \in Holders |->
                        IF h \in Users THEN InitBalance ELSE 0]]
    /\ allowance = [t \in Tokens |-> [u \in Users |-> MAX_UINT256]]
    /\ now = BLOCK_TIME
    /\ last = [op |-> "none", sender |-> ZERO, p |-> <<>>, ret |-> NoRet, pre |-> Cur]
    /\ txs = 0
    /\ _status = NOT_ENTERED
    /\ frame = NoFrame
    /\ nested = NoNested

\* one transaction.  A revert leaves no trace: storage, ledger and last stay
\* as they were.  A success commits its writes, and last keeps the call, what
\* it returned and the storage and ledger it started from.
Transact(op, sender, p, r) ==
    /\ txs < MaxTxs
    /\ IF r.err # ""
       THEN UNCHANGED <<pools, liquidity, balanceOf, allowance, last, txs>>
       ELSE /\ pools' = r.st.pools
            /\ liquidity' = r.st.liquidity
            /\ balanceOf' = r.st.balanceOf
            /\ allowance' = r.st.allowance
            /\ last' = [op |-> op, sender |-> sender, p |-> p, ret |-> r.ret, pre |-> Cur]
            /\ txs' = txs + 1
    /\ UNCHANGED <<now, _status, frame, nested>>

AddLiquidity ==
    /\ txs < MaxTxs
    /\ \E sender \in Users : \E p \in AddParams(sender) :
        Transact("addLiquidity", sender, p, addLiquidity(Cur, sender, p))

RemoveLiquidity ==
    /\ txs < MaxTxs
    /\ \E sender \in Users : \E p \in RemoveParams(sender) :
        Transact("removeLiquidity", sender, p, removeLiquidity(Cur, sender, p))

Swap ==
    /\ txs < MaxTxs
    /\ \E sender \in Users : \E p \in SwapParams(sender) :
        Transact("swapExactTokensForTokens", sender, p,
                 swapExactTokensForTokens(Cur, sender, p))

Next == AddLiquidity \/ RemoveLiquidity \/ Swap

Spec == Init /\ [][Next]_vars

----------------------------------------------------------------------------
(* The calls taken apart: effects in code order, reentrancy, rollback *)

\* the allowance of TokenA user gives the contract before it calls (less
\* than it swaps), and the TokenB user holds (less than it has approved)
UserAllowance == 1
UserBalance == 1

\* the external function op, run from the storage and ledger st
Run(op, st, sender, p) ==
    CASE op = "addLiquidity" -> addLiquidity(st, sender, p)
      [] op = "removeLiquidity" -> removeLiquidity(st, sender, p)
      [] OTHER -> swapExactTokensForTokens(st, sender, p)

\* the guard without its test: a nested call is let in
entered_Off(status) == FALSE

\* ReentrancyGuard: _status == ENTERED
entered(status) == status = ENTERED

\* modifier nonReentrant applied to a call whose body would end as r in st
nonReentrant(status, st, r) ==
    IF entered(status) THEN Revert(st, "ReentrancyGuardReentrantCall", <<>>) ELSE r

\* the exit of the modifier leaving the flag as it found it
_nonReentrantAfter_Held(status) == status

\* the exit of modifier nonReentrant, reached when the body returns: the
\* flag is put back (a revert undoes the store that set it)
_nonReentrantAfter(status) == NOT_ENTERED

\* a revert that leaves the effects made so far in place
rollback_Keep(st0, st) == st

\* a revert of the transaction: the storage and ledger are as at its start
rollback(st0, st) == st0

\* the deposits, withdrawals and swaps followed effect by effect
StepPairs == {<<1, 1>>, <<1, 2>>, <<2, 4>>, <<4, 4>>, <<MAX_UINT112 + 1, 2>>}

StepAddParams(sender) ==
    { AddP(tp, dp, <<0, 0>>, sender, now) : tp \in TokenPairs, dp \in StepPairs }

StepRemoveParams(sender) ==
    { RemoveP(tp, l, <<0, 0>>, sender, now) :
        tp \in TokenPairs, l \in RemoveAmounts(sender) }

StepSwapParams(sender) ==
    { SwapP(ai, 0, tp, sender, now) : ai \in SwapAmounts, tp \in TokenPairs }

\* what a token that has been handed control may call back with
NestedCalls(sender) ==
    { [op |-> "addLiquidity", sender |-> sender,
       p |-> AddP(<<TokenA, TokenB>>, <<1, 1>>, <<0, 0>>, sender, now)],
      [op |-> "removeLiquidity", sender |-> sender,
       p |-> RemoveP(<<TokenA, TokenB>>, 1, <<0, 0>>, sender, now)] }
    \cup { [op |-> "swapExactTokensForTokens", sender |-> sender,
             p |-> SwapP(1, 0, tp, sender, now)] : tp \in TokenPairs }

InitCalls ==
    /\ pools = [k \in TokenArgs \X TokenArgs |-> EmptyPool]
    /\ liquidity = [k \in TokenArgs \X TokenArgs |-> [u \in Users |-> 0]]
    /\ balanceOf = [t \in Tokens |-> [h \in Holders |->
                        IF h = User /\ t = TokenB THEN UserBalance
                        ELSE IF h \in Users THEN InitBalance ELSE 0]]
    /\ allowance = [t \in Tokens |-> [u \in Users |->
                        IF u = User /\ t = TokenA THEN UserAllowance
                        ELSE MAX_UINT256]]
    /\ now = BLOCK_TIME
    /\ last = [op |-> "none", sender |-> ZERO, p |-> <<>>, ret |-> NoRet, pre |-> Cur]
    /\ txs = 0
    /\ _status = NOT_ENTERED
    /\ frame = NoFrame
    /\ nested = NoNested

\* the call in flight, run from the state it was entered in
FrameRun == Run(frame.op, frame.st0, frame.sender, frame.p)

\* an external call enters through nonReentrant.  A call that reverts
\* before it has any effect leaves no trace.
EnterCall(op, sender, p) ==
    /\ frame.op = "none"
    /\ txs < MaxTxs
    /\ nonReentrant(_status, Cur, Run(op, Cur, sender, p)).steps # <<>>
    /\ _status' = ENTERED
    /\ frame' = [op |-> op, sender |-> sender, p |-> p, st0 |-> Cur, pc |-> 0]
    /\ nested' = NoNested
    /\ UNCHANGED <<pools, liquidity, balanceOf, allowance, now, last, txs>>

CallAddLiquidity ==
    \E sender \in Users : \E p \in StepAddParams(sender) :
        EnterCall("addLiquidity", sender, p)

CallRemoveLiquidity ==
    \E sender \in Users : \E p \in StepRemoveParams(sender) :
        EnterCall("removeLiquidity", sender, p)

CallSwap ==
    \E sender \in Users : \E p \in StepSwapParams(sender) :
        EnterCall("swapExactTokensForTokens", sender, p)

\* the call in flight makes its next effect
MakeEffect ==
    /\ frame.op # "none"
    /\ frame.pc < Len(FrameRun.steps)
    /\ \E e \in {FrameRun.steps[frame.pc + 1]} :
        /\ pools' = e.st.pools
        /\ liquidity' = e.st.liquidity
        /\ balanceOf' = e.st.balanceOf
        /\ allowance' = e.st.allowance
    /\ frame' = [frame EXCEPT !.pc = @ + 1]
    /\ nested' = NoNested
    /\ UNCHANGED <<now, last, txs, _status>>

\* the last effect was an external call to a token
InToken ==
    /\ frame.op # "none"
    /\ frame.pc >= 1
    /\ FrameRun.steps[frame.pc].ev \in {"transferFrom", "transfer"}

\* the token that was called calls back into the contract
Reenter ==
    /\ InToken
    /\ nested.op = "none"
    /\ \E sender \in Users : \E c \in NestedCalls(sender) :
          \E r \in {nonReentrant(_status, Cur, Run(c.op, Cur, c.sender, c.p))} :
          /\ pools' = r.st.pools
          /\ liquidity' = r.st.liquidity
          /\ balanceOf' = r.st.balanceOf
          /\ allowance' = r.st.allowance
          /\ nested' = [op |-> c.op, sender |-> c.sender, p |-> c.p, err |-> r.err]
    /\ UNCHANGED <<now, last, txs, _status, frame>>

\* the call in flight ends: it returns through the exit of nonReentrant, or
\* it reverts at the point where the code fails and the transaction is
\* rolled back, the guard's flag with it
EndCall ==
    /\ frame.op # "none"
    /\ \E r \in {FrameRun} :
        /\ frame.pc = Len(r.steps)
        /\ IF r.err # ""
           THEN /\ \E st \in {rollback(frame.st0, Cur)} :
                     /\ pools' = st.pools
                     /\ liquidity' = st.liquidity
                     /\ balanceOf' = st.balanceOf
                     /\ allowance' = st.allowance
                /\ UNCHANGED <<last, txs>>
           ELSE /\ last' = [op |-> frame.op, sender |-> frame.sender, p |-> frame.p,
                            ret |-> r.ret, pre |-> frame.st0]
                /\ txs' = txs + 1
                /\ UNCHANGED <<pools, liquidity, balanceOf, allowance>>
    /\ _status' = IF FrameRun.err # "" THEN NOT_ENTERED ELSE _nonReentrantAfter(_status)
    /\ frame' = NoFrame
    /\ nested' = NoNested
    /\ UNCHANGED now

NextCalls ==
    CallAddLiquidity \/ CallRemoveLiquidity \/ CallSwap
    \/ MakeEffect \/ Reenter \/ EndCall

SpecCalls == InitCalls /\ [][NextCalls]_vars

----------------------------------------------------------------------------
(* getAmountOut run alone: a caller picks its three arguments, then calls it *)

\* the amounts and reserves a caller may pass
QuoteValues == 0..MaxQuote

\* the storage is that of a fresh deployment; last holds the arguments picked
InitQuote ==
    /\ pools = [k \in TokenArgs \X TokenArgs |-> EmptyPool]
    /\ liquidity = [k \in TokenArgs \X TokenArgs |-> [u \in Users |-> 0]]
    /\ balanceOf = [t \in Tokens |-> [h \in Holders |->
                        IF h \in Users THEN InitBalance ELSE 0]]
    /\ allowance = [t \in Tokens |-> [u \in Users |-> MAX_UINT256]]
    /\ now = BLOCK_TIME
    /\ \E amountIn \in QuoteValues, reserveIn \in QuoteValues, reserveOut \in QuoteValues :
          last = [op |-> "none",
                  p |-> [amountIn |-> amountIn, reserveIn |-> reserveIn,
                         reserveOut |-> reserveOut]]
    /\ txs = 0
    /\ _status = NOT_ENTERED
    /\ frame = NoFrame
    /\ nested = NoNested

\* the call getAmountOut(amountIn, reserveIn, reserveOut): pure, so only the
\* record of the call changes
Quote ==
    /\ last.op = "none"
    /\ \E g \in {getAmountOut(last.p.amountIn, last.p.reserveIn, last.p.reserveOut)} :
          last' = [op |-> "getAmountOut", p |-> last.p,
                   err |-> g.err, amountOut |-> g.amountOut]
    /\ UNCHANGED <<pools, liquidity, balanceOf, allowance, now, txs,
                   _status, frame, nested>>

NextQuote == Quote

SpecQuote == InitQuote /\ [][NextQuote]_vars

----------------------------------------------------------------------------
(* sqrt run alone: a caller picks y, then calls TestHelper.testSqrt(y) *)

\* the values a caller may pass
RootValues == 0..MaxRoot

\* the storage is that of a fresh deployment; last holds the argument picked
InitSqrt ==
    /\ pools = [k \in TokenArgs \X TokenArgs |-> EmptyPool]
    /\ liquidity = [k \in TokenArgs \X TokenArgs |-> [u \in Users |-> 0]]
    /\ balanceOf = [t \in Tokens |-> [h \in Holders |->
                        IF h \in Users THEN InitBalance ELSE 0]]
    /\ allowance = [t \in Tokens |-> [u \in Users |-> MAX_UINT256]]
    /\ now = BLOCK_TIME
    /\ \E y \in RootValues : last = [op |-> "none", p |-> [y |-> y]]
    /\ txs = 0
    /\ _status = NOT_ENTERED
    /\ frame = NoFrame
    /\ nested = NoNested

\* the call testSqrt(y), which returns sqrt(y): pure, so only the record of
\* the call changes
testSqrt ==
    /\ last.op = "none"
    /\ last' = [op |-> "sqrt", p |-> last.p, z |-> sqrt(last.p.y)]
    /\ UNCHANGED <<pools, liquidity, balanceOf, allowance, now, txs,
                   _status, frame, nested>>

NextSqrt == testSqrt

SpecSqrt == InitSqrt /\ [][NextSqrt]_vars

----------------------------------------------------------------------------
(* Reading the record of the last successful call *)

RECURSIVE SumOver(_, _)
SumOver(f, S) ==
    IF S = {} THEN 0
    ELSE LET x == CHOOSE y \in S : TRUE IN f[x] + SumOver(f, S \ {x})

\* the pool record of the unordered pair {x, y} in state st
PoolOf(st, x, y) == st.pools[<<sortTokens(x, y).token0, sortTokens(x, y).token1>>]
\* the stored reserve of token x in the pool of {x, y}
ReserveOf(st, x, y) ==
    IF x < y THEN PoolOf(st, x, y).reserveA ELSE PoolOf(st, x, y).reserveB

LastAdd == last.op = "addLiquidity"
LastRemove == last.op = "removeLiquidity"
LastSwap == last.op = "swapExactTokensForTokens"

----------------------------------------------------------------------------
(* Claims *)

\* C1: in every reachable state every pool has reserve0 = 0 exactly when
\* reserve1 = 0; no state with exactly one zero reserve is reachable.
C1_ReservesPaired ==
    \A k \in DOMAIN pools : (pools[k].reserveA = 0) <=> (pools[k].reserveB = 0)

\* C2: in every reachable state every pool has totalLiquidity = 0 exactly
\* when both of its reserves are 0.
C2_SharesIffReserves ==
    \A k \in DOMAIN pools :
        (pools[k].totalLiquidity = 0)
            <=> (pools[k].reserveA = 0 /\ pools[k].reserveB = 0)

\* C3: in every reachable state every pool's totalLiquidity is the sum of
\* the holders' positions in that pool.
C3_TotalIsSumOfPositions ==
    \A k \in DOMAIN pools : pools[k].totalLiquidity = SumOver(liquidity[k], Users)

\* C4: no successful addLiquidity or swap stores a reserve or a share total
\* that is the truncated image of a larger computed value: the values it
\* computed (old reserve plus amount added, old total plus shares minted)
\* fit type(uint112).max, and are what is stored.
C4_NoTruncatedStore ==
    /\ LastAdd =>
        LET pre == PoolOf(last.pre, last.p.tokenA, last.p.tokenB)
            post == PoolOf(Cur, last.p.tokenA, last.p.tokenB)
            amount0 == IF last.p.tokenA < last.p.tokenB
                       THEN last.ret.amountA ELSE last.ret.amountB
            amount1 == IF last.p.tokenA < last.p.tokenB
                       THEN last.ret.amountB ELSE last.ret.amountA
        IN  /\ pre.reserveA + amount0 <= MAX_UINT112
            /\ pre.reserveB + amount1 <= MAX_UINT112
            /\ pre.totalLiquidity + last.ret.liquidityMinted <= MAX_UINT112
            /\ post.reserveA = pre.reserveA + amount0
            /\ post.reserveB = pre.reserveB + amount1
            /\ post.totalLiquidity = pre.totalLiquidity + last.ret.liquidityMinted
    /\ LastSwap =>
        /\ ReserveOf(last.pre, last.p.path[1], last.p.path[2]) + last.p.amountIn
              <= MAX_UINT112
        /\ ReserveOf(Cur, last.p.path[1], last.p.path[2])
              = ReserveOf(last.pre, last.p.path[1], last.p.path[2]) + last.p.amountIn

\* C5: on every successful addLiquidity, in either token order and for
\* empty and seeded pools, the amount of tokenA debited from the caller
\* (the returned amountA) is at most amountADesired and the amount of
\* tokenB debited (the returned amountB) is at most amountBDesired.
C5_DebitWithinDesired ==
    LastAdd =>
        /\ last.ret.amountA <= last.p.amountADesired
        /\ last.ret.amountB <= last.p.amountBDesired
        /\ last.pre.balanceOf[last.p.tokenA][last.sender]
             - balanceOf[last.p.tokenA][last.sender] <= last.p.amountADesired
        /\ last.pre.balanceOf[last.p.tokenB][last.sender]
             - balanceOf[last.p.tokenB][last.sender] <= last.p.amountBDesired

\* C6: on every successful addLiquidity the amount of tokenA added is at
\* least amountAMin and the amount of tokenB added is at least amountBMin,
\* for empty and seeded pools and both token orders.
C6_AddedAtLeastMin ==
    LastAdd =>
        /\ last.ret.amountA >= last.p.amountAMin
        /\ last.ret.amountB >= last.p.amountBMin

\* C7: on every successful removeLiquidity, in either token order, the
\* amount of tokenA paid out is at least amountAMin and the amount of tokenB
\* paid out is at least amountBMin.
C7_PaidAtLeastMin ==
    LastRemove =>
        /\ last.ret.amountA >= last.p.amountAMin
        /\ last.ret.amountB >= last.p.amountBMin

\* the arguments of a swap pass every check that precedes the reserves
SwapArgsValid(p) ==
    /\ Len(p.path) = 2
    /\ p.to # ZERO
    /\ p.path[1] # p.path[2]
    /\ p.amountIn > 0
    /\ p.deadline >= now

Product(st, x, y) == PoolOf(st, x, y).reserveA * PoolOf(st, x, y).reserveB

\* C10: every successful swap leaves the product of the pool's reserves
\* strictly greater than it found it, also a swap that follows a swap.
C10_ProductGrows ==
    /\ LastSwap =>
          Product(Cur, last.p.path[1], last.p.path[2])
            > Product(last.pre, last.p.path[1], last.p.path[2])
    /\ LastSwap =>
          \A sender \in Users : \A p \in SwapParams(sender) :
              LET r == swapExactTokensForTokens(Cur, sender, p) IN
              r.err = "" =>
                  Product(r.st, p.path[1], p.path[2])
                    > Product(Cur, p.path[1], p.path[2])

\* a swap from token0 to token1 has paid out, and a further swap would succeed
C10_Witness ==
    /\ LastSwap
    /\ last.p.path[1] = TokenA
    /\ last.ret.amountOut > 0
    /\ \E sender \in Users : \E p \in SwapParams(sender) :
          swapExactTokensForTokens(Cur, sender, p).err = ""

----------------------------------------------------------------------------
(* Claims on token order and on the amounts of addLiquidity (Spec) *)

\* the same deposit with the two tokens, and what goes with each, exchanged
Reordered(p) ==
    [p EXCEPT !.tokenA = p.tokenB, !.tokenB = p.tokenA,
              !.amountADesired = p.amountBDesired, !.amountBDesired = p.amountADesired,
              !.amountAMin = p.amountBMin, !.amountBMin = p.amountAMin]

\* C14: from every state, addLiquidity(A, B, a, b, aMin, bMin, to, d) and
\* addLiquidity(B, A, b, a, bMin, aMin, to, d) both fail or both succeed;
\* when they succeed they take the same amount of each token, mint the same
\* shares and leave the same storage and ledger.
C14_AddOrderIrrelevant ==
    \A sender \in Users : \A p \in AddParams(sender) :
        LET r1 == addLiquidity(Cur, sender, p)
            r2 == addLiquidity(Cur, sender, Reordered(p))
        IN  /\ (r1.err = "") <=> (r2.err = "")
            /\ (r1.err = "" /\ r2.err = "") =>
                  /\ r1.ret.amountA = r2.ret.amountB
                  /\ r1.ret.amountB = r2.ret.amountA
                  /\ r1.ret.liquidityMinted = r2.ret.liquidityMinted
                  /\ r1.st = r2.st

\* C15: for distinct tokens A, B and every holder u, getReserves(A, B) gives
\* (x, y) exactly when getReserves(B, A) gives (y, x), both fail together,
\* getLiquidity(A, B, u) = getLiquidity(B, A, u), and the record under the
\* unsorted key is never written.
C15_ViewsOrderIrrelevant ==
    /\ \A A \in Tokens : \A B \in Tokens \ {A} :
          LET ab == getReserves(Cur, A, B)
              ba == getReserves(Cur, B, A)
          IN  /\ ab.err = ba.err
              /\ ab.reserveA = ba.reserveB
              /\ ab.reserveB = ba.reserveA
              /\ \A u \in Users :
                    getLiquidity(Cur, A, B, u) = getLiquidity(Cur, B, A, u)
    /\ pools[<<TokenB, TokenA>>] = EmptyPool
    /\ \A u \in Users : liquidity[<<TokenB, TokenA>>][u] = 0

\* the two reserves differ and a holder has shares
C15_Witness ==
    /\ getReserves(Cur, TokenA, TokenB).err = ""
    /\ getReserves(Cur, TokenA, TokenB).reserveA
         # getReserves(Cur, TokenA, TokenB).reserveB
    /\ getLiquidity(Cur, TokenB, TokenA, Owner).value > 0
    /\ LastSwap

\* C16: a successful addLiquidity on a pool with zero reserves, in either
\* token order, takes exactly amountADesired and amountBDesired from the
\* caller, stores each token's deposit as that token's reserve, credits
\* sqrt(amountADesired * amountBDesired) shares to the recipient and stores
\* that as totalLiquidity.
C16_BootstrapExact ==
    (LastAdd /\ ReserveOf(last.pre, last.p.tokenA, last.p.tokenB) = 0
             /\ ReserveOf(last.pre, last.p.tokenB, last.p.tokenA) = 0) =>
        LET tokenA == last.p.tokenA
            tokenB == last.p.tokenB
            key == <<sortTokens(tokenA, tokenB).token0, sortTokens(tokenA, tokenB).token1>>
            shares == sqrt(last.p.amountADesired * last.p.amountBDesired)
        IN  /\ last.ret.amountA = last.p.amountADesired
            /\ last.ret.amountB = last.p.amountBDesired
            /\ balanceOf[tokenA][last.sender]
                 = last.pre.balanceOf[tokenA][last.sender] - last.p.amountADesired
            /\ balanceOf[tokenB][last.sender]
                 = last.pre.balanceOf[tokenB][last.sender] - last.p.amountBDesired
            /\ ReserveOf(Cur, tokenA, tokenB) = last.p.amountADesired
            /\ ReserveOf(Cur, tokenB, tokenA) = last.p.amountBDesired
            /\ last.ret.liquidityMinted = shares
            /\ liquidity[key][last.p.to] = last.pre.liquidity[key][last.p.to] + shares
            /\ pools[key].totalLiquidity = shares

\* an addLiquidity on a pool with reserves whose arguments pass the checks
\* and whose amounts are worth no share reverts with SS:ILM (or earlier, in
\* the token ledger) and changes nothing
ZeroSharesRevert ==
    \A sender \in Users : \A p \in AddParams(sender) :
        LET pool == PoolOf(Cur, p.tokenA, p.tokenB)
            a == addAmounts(p, sortTokens(p.tokenA, p.tokenB).token0,
                            pool.reserveA, pool.reserveB)
            r == addLiquidity(Cur, sender, p)
        IN  (/\ <<p.tokenA, p.tokenB>> \in TokenPairs
             /\ p.to # ZERO /\ p.deadline >= now
             /\ p.amountADesired > 0 /\ p.amountBDesired > 0
             /\ pool.reserveA > 0 /\ pool.reserveB > 0
             /\ a.err = ""
             /\ addShares(a.amount0, a.amount1, pool.reserveA, pool.reserveB,
                          pool.totalLiquidity).err = "SS:ILM")
            => /\ r.err \in {"SS:ILM", "ERC20InsufficientAllowance",
                              "ERC20InsufficientBalance"}
               /\ r.st = Cur

\* C17: on a pool with reserves, a successful addLiquidity mints exactly
\* min(amount0 * totalLiquidity / reserve0, amount1 * totalLiquidity /
\* reserve1) shares (the value returned, credited to the recipient and
\* added to totalLiquidity); and every addLiquidity for which that value is
\* 0 fails with SS:ILM and changes nothing.
C17_ProportionalMint ==
    /\ (LastAdd /\ PoolOf(last.pre, last.p.tokenA, last.p.tokenB).reserveA > 0
                /\ PoolOf(last.pre, last.p.tokenA, last.p.tokenB).reserveB > 0) =>
          LET pre == PoolOf(last.pre, last.p.tokenA, last.p.tokenB)
              key == <<sortTokens(last.p.tokenA, last.p.tokenB).token0,
                       sortTokens(last.p.tokenA, last.p.tokenB).token1>>
              amount0 == IF last.p.tokenA < last.p.tokenB
                         THEN last.ret.amountA ELSE last.ret.amountB
              amount1 == IF last.p.tokenA < last.p.tokenB
                         THEN last.ret.amountB ELSE last.ret.amountA
              l0 == (amount0 * pre.totalLiquidity) \div pre.reserveA
              l1 == (amount1 * pre.totalLiquidity) \div pre.reserveB
              shares == IF l0 < l1 THEN l0 ELSE l1
          IN  /\ shares > 0
              /\ last.ret.liquidityMinted = shares
              /\ liquidity[key][last.p.to] = last.pre.liquidity[key][last.p.to] + shares
              /\ pools[key].totalLiquidity = pre.totalLiquidity + shares
    /\ ZeroSharesRevert

----------------------------------------------------------------------------
(* Claims on removeLiquidity and on deposits followed by withdrawals (Spec) *)

\* C18: a successful removeLiquidity burning L shares pays the recipient
\* exactly L*reserve0/totalLiquidity of token0 and L*reserve1/totalLiquidity
\* of token1 (floor divisions on the pre-call values), lowers each reserve
\* by what it paid, lowers totalLiquidity and the caller's position by L,
\* and pays no more than the reserve of either token.
C18_RemoveExact ==
    LastRemove =>
        LET tokenA == last.p.tokenA
            tokenB == last.p.tokenB
            s == sortTokens(tokenA, tokenB)
            key == <<s.token0, s.token1>>
            pre == last.pre.pools[key]
            L == last.p.liquidityAmt
            amount0 == (L * pre.reserveA) \div pre.totalLiquidity
            amount1 == (L * pre.reserveB) \div pre.totalLiquidity
        IN  /\ last.ret.amountA = (IF tokenA = s.token0 THEN amount0 ELSE amount1)
            /\ last.ret.amountB = (IF tokenA = s.token0 THEN amount1 ELSE amount0)
            /\ amount0 <= pre.reserveA
            /\ amount1 <= pre.reserveB
            /\ pools[key].reserveA = pre.reserveA - amount0
            /\ pools[key].reserveB = pre.reserveB - amount1
            /\ pools[key].totalLiquidity = pre.totalLiquidity - L
            /\ liquidity[key][last.sender] = last.pre.liquidity[key][last.sender] - L
            /\ \A u \in Users \ {last.sender} :
                  liquidity[key][u] = last.pre.liquidity[key][u]
            /\ balanceOf[s.token0][last.p.to]
                 = last.pre.balanceOf[s.token0][last.p.to] + amount0
            /\ balanceOf[s.token1][last.p.to]
                 = last.pre.balanceOf[s.token1][last.p.to] + amount1
            /\ balanceOf[s.token0][THIS] = last.pre.balanceOf[s.token0][THIS] - amount0
            /\ balanceOf[s.token1][THIS] = last.pre.balanceOf[s.token1][THIS] - amount1

\* part of a position was burnt from a pool with unequal reserves, in the
\* order (token1, token0), and something of each token was paid
C18_Witness ==
    /\ LastRemove
    /\ last.p.tokenA = TokenB
    /\ last.p.liquidityAmt < PoolOf(last.pre, TokenA, TokenB).totalLiquidity
    /\ PoolOf(last.pre, TokenA, TokenB).reserveA # PoolOf(last.pre, TokenA, TokenB).reserveB
    /\ last.ret.amountA > 0
    /\ last.ret.amountB > 0

\* the storage and ledger of a fresh deployment, as Init sets them
Deployed ==
    [pools |-> [k \in TokenArgs \X TokenArgs |-> EmptyPool],
     liquidity |-> [k \in TokenArgs \X TokenArgs |-> [u \in Users |-> 0]],
     balanceOf |-> [t \in Tokens |-> [h \in Holders |->
                       IF h \in Users THEN InitBalance ELSE 0]],
     allowance |-> [t \in Tokens |-> [u \in Users |-> MAX_UINT256]]]

\* C19: from every state whose pool has zero reserves, a deposit (a, b) by
\* a caller to itself followed at once by the removal of all the shares it
\* minted returns at most a of tokenA and at most b of tokenB, and leaves
\* the caller with no more of either token than it had.
C19_RoundTripNoGain ==
    (pools[<<TokenA, TokenB>>].reserveA = 0 /\ pools[<<TokenA, TokenB>>].reserveB = 0) =>
    \A sender \in Users : \A p \in AddParams(sender) :
        (<<p.tokenA, p.tokenB>> \in TokenPairs /\ p.to = sender) =>
            LET r1 == addLiquidity(Cur, sender, p)
                held == r1.st.liquidity[<<TokenA, TokenB>>][sender]
            IN  r1.err = "" =>
                \A L \in {r1.ret.liquidityMinted, held} : \A tp \in TokenPairs :
                    LET r2 == removeLiquidity(r1.st, sender,
                                              RemoveP(tp, L, <<0, 0>>, sender, now))
                        backA == IF tp[1] = p.tokenA THEN r2.ret.amountA ELSE r2.ret.amountB
                        backB == IF tp[1] = p.tokenA THEN r2.ret.amountB ELSE r2.ret.amountA
                    IN  r2.err = "" =>
                            /\ backA <= p.amountADesired
                            /\ backB <= p.amountBDesired
                            /\ \A t \in Tokens :
                                  r2.st.balanceOf[t][sender] <= balanceOf[t][sender]

\* a caller deposited into the fresh pool to itself and then burnt exactly
\* the shares that deposit minted, getting something of each token back
C19_Witness ==
    /\ LastRemove
    /\ last.ret.amountA > 0
    /\ last.ret.amountB > 0
    /\ last.p.to = last.sender
    /\ \E p \in AddParams(last.sender) :
          /\ p.to = last.sender
          /\ addLiquidity(Deployed, last.sender, p).err = ""
          /\ addLiquidity(Deployed, last.sender, p).st = last.pre
          /\ addLiquidity(Deployed, last.sender, p).ret.liquidityMinted
               = last.p.liquidityAmt

\* sender holds every share of the pool of TokenA and TokenB
SoleHolder(sender) ==
    /\ liquidity[<<TokenA, TokenB>>][sender] > 0
    /\ \A u \in Users \ {sender} : liquidity[<<TokenA, TokenB>>][u] = 0

\* the deposits tried on the drained pool: every order and desired pair
RefillParams(sender) ==
    { AddP(tp, dp, <<0, 0>>, sender, now) : tp \in TokenPairs, dp \in DesiredPairs }

\* p takes from sender, in the ledger of st, no more than sender holds
Affordable(st, sender, p) ==
    /\ st.balanceOf[p.tokenA][sender] >= p.amountADesired
    /\ st.balanceOf[p.tokenB][sender] >= p.amountBDesired

\* C20: when the sole holder of a pool burns all its shares, after swaps or
\* not, the burn goes through and leaves reserves (0, 0), totalLiquidity 0
\* and no position; every addLiquidity that follows and that the caller can
\* pay for succeeds as a bootstrap: it takes exactly the desired amounts, in
\* either order and at any ratio, and mints sqrt of their product.
C20_DrainThenBootstrap ==
    /\ (LastRemove /\ last.p.liquidityAmt
                        = PoolOf(last.pre, TokenA, TokenB).totalLiquidity) =>
          pools[<<TokenA, TokenB>>] = EmptyPool
    /\ \A sender \in Users : SoleHolder(sender) =>
          \A tp \in TokenPairs :
            LET r1 == removeLiquidity(Cur, sender,
                          RemoveP(tp, liquidity[<<TokenA, TokenB>>][sender],
                                  <<0, 0>>, sender, now))
            IN  /\ r1.err = ""
                /\ r1.st.pools[<<TokenA, TokenB>>] = EmptyPool
                /\ r1.st.liquidity[<<TokenA, TokenB>>][sender] = 0
                /\ \A p \in RefillParams(sender) :
                      LET r2 == addLiquidity(r1.st, sender, p) IN
                      /\ Affordable(r1.st, sender, p) => r2.err = ""
                      /\ r2.err = "" =>
                            /\ r2.ret.amountA = p.amountADesired
                            /\ r2.ret.amountB = p.amountBDesired
                            /\ r2.ret.liquidityMinted
                                 = sqrt(p.amountADesired * p.amountBDesired)
                            /\ r2.st.balanceOf[p.tokenA][sender]
                                 = r1.st.balanceOf[p.tokenA][sender] - p.amountADesired
                            /\ r2.st.balanceOf[p.tokenB][sender]
                                 = r1.st.balanceOf[p.tokenB][sender] - p.amountBDesired

\* a swap has moved the reserves of a pool with a sole holder away from
\* equal, and after the holder's full burn a deposit of equal amounts, in
\* the order (token1, token0), goes through
C20_Witness ==
    /\ LastSwap
    /\ SoleHolder(Owner)
    /\ pools[<<TokenA, TokenB>>].reserveA # pools[<<TokenA, TokenB>>].reserveB
    /\ LET r1 == removeLiquidity(Cur, Owner,
                      RemoveP(<<TokenA, TokenB>>, liquidity[<<TokenA, TokenB>>][Owner],
                              <<0, 0>>, Owner, now))
       IN  /\ r1.err = ""
           /\ r1.ret.amountA > 0
           /\ addLiquidity(r1.st, Owner,
                  AddP(<<TokenB, TokenA>>, <<2, 2>>, <<0, 0>>, Owner, now)).err = ""
           /\ addLiquidity(r1.st, Owner,
                  AddP(<<TokenB, TokenA>>, <<2, 2>>, <<0, 0>>, Owner, now)).st
                    .pools[<<TokenA, TokenB>>]
                = [reserveA |-> 2, reserveB |-> 2, totalLiquidity |-> 2]

----------------------------------------------------------------------------
(* Claims on the calls taken apart (SpecCalls) *)

\* the errors of the token ledger
LedgerErrors == {"ERC20InsufficientAllowance", "ERC20InsufficientBalance"}

\* C11: when a token transfer of addLiquidity, removeLiquidity or
\* swapExactTokensForTokens fails, the call ends with reserves,
\* totalLiquidity, positions, balances and allowances exactly as they were
\* when it was entered, whatever it had written or transferred before.
C11_TransferFailureRollsBack ==
    [][ (frame.op # "none" /\ frame'.op = "none" /\ FrameRun.err \in LedgerErrors)
          => /\ pools' = frame.st0.pools
             /\ liquidity' = frame.st0.liquidity
             /\ balanceOf' = frame.st0.balanceOf
             /\ allowance' = frame.st0.allowance
             /\ last' = last
             /\ txs' = txs ]_vars

\* a swap has written the new reserves and its transferFrom is about to fail
C11_Witness ==
    /\ frame.op = "swapExactTokensForTokens"
    /\ FrameRun.err \in LedgerErrors
    /\ frame.pc = Len(FrameRun.steps)
    /\ frame.pc >= 1
    /\ pools # frame.st0.pools

\* an addLiquidity has pulled its first token and its second transferFrom
\* is about to fail
AddSecondTransferFails ==
    /\ frame.op = "addLiquidity"
    /\ FrameRun.err \in LedgerErrors
    /\ frame.pc = Len(FrameRun.steps)
    /\ frame.pc = 1
    /\ balanceOf # frame.st0.balanceOf

\* C12: while a call is in flight the guard is set, and every nested call to
\* addLiquidity, removeLiquidity or swapExactTokensForTokens, tried or not,
\* reverts with ReentrancyGuardReentrantCall and changes nothing.
C12_NestedCallsFail ==
    /\ (frame.op # "none") <=> (_status = ENTERED)
    /\ nested.op # "none" => nested.err = "ReentrancyGuardReentrantCall"
    /\ frame.op # "none" =>
          \A sender \in Users : \A c \in NestedCalls(sender) :
              LET r == nonReentrant(_status, Cur, Run(c.op, Cur, c.sender, c.p)) IN
              /\ r.err = "ReentrancyGuardReentrantCall"
              /\ r.st = Cur

\* a token called by a swap that has written the new reserves has tried a
\* nested call which, run on the storage as it is, would go through
C12_Witness ==
    /\ frame.op = "swapExactTokensForTokens"
    /\ nested.op # "none"
    /\ pools # frame.st0.pools
    /\ Run(nested.op, Cur, nested.sender, nested.p).err = ""

\* C13: when a call that returns hands control to a token (transferFrom or
\* transfer), every store to pools and liquidity that the call makes has
\* been made.
C13_WritesBeforeTransfers ==
    (InToken /\ FrameRun.err = "") =>
        \A i \in 1..Len(FrameRun.steps) :
            FrameRun.steps[i].ev = "write" => i < frame.pc

----------------------------------------------------------------------------
(* Claims on the argument checks and the views (Spec) *)

\* p passes the checks addLiquidity makes before it looks at the deadline
AddArgsChecked(p) ==
    /\ p.tokenA # ZERO /\ p.tokenB # ZERO
    /\ p.to # ZERO
    /\ p.amountADesired > 0 /\ p.amountBDesired > 0

\* p passes the checks removeLiquidity makes before it looks at the deadline
RemoveArgsChecked(p) ==
    /\ p.tokenA # ZERO /\ p.tokenB # ZERO
    /\ p.to # ZERO
    /\ p.liquidityAmt > 0

\* p passes the checks the swap makes before it looks at the deadline
SwapArgsChecked(p) ==
    /\ Len(p.path) = 2
    /\ p.to # ZERO
    /\ p.path[1] # p.path[2]
    /\ p.amountIn > 0

\* deadlines before the block's timestamp
PastDeadlines == {0, now - 1}

\* the call p with deadline d
WithDeadline(p, d) == [p EXCEPT !.deadline = d]

\* r is a failure that made no effect: no store, no token transfer
FailsUntouched(r) ==
    /\ r.err # ""
    /\ r.steps = <<>>
    /\ r.st = Cur

\* C21: in every reachable state, the never-seeded pool included, each of
\* addLiquidity, removeLiquidity and swapExactTokensForTokens called with
\* deadline < block.timestamp fails before any store or token transfer and
\* leaves the state as it was, with SS:EXP when its arguments pass the
\* checks the code makes before the deadline; no call with deadline ==
\* block.timestamp fails with SS:EXP.
C21_ExpiredRejected ==
    \A sender \in Users :
        /\ \A p \in AddParams(sender) :
              /\ \A d \in PastDeadlines :
                    LET r == addLiquidity(Cur, sender, WithDeadline(p, d)) IN
                    /\ FailsUntouched(r)
                    /\ AddArgsChecked(p) => r.err = "SS:EXP"
              /\ addLiquidity(Cur, sender, WithDeadline(p, now)).err # "SS:EXP"
        /\ \A p \in RemoveParams(sender) :
              /\ \A d \in PastDeadlines :
                    LET r == removeLiquidity(Cur, sender, WithDeadline(p, d)) IN
                    /\ FailsUntouched(r)
                    /\ RemoveArgsChecked(p) => r.err = "SS:EXP"
              /\ removeLiquidity(Cur, sender, WithDeadline(p, now)).err # "SS:EXP"
        /\ \A p \in SwapParams(sender) :
              /\ \A d \in PastDeadlines :
                    LET r == swapExactTokensForTokens(Cur, sender, WithDeadline(p, d)) IN
                    /\ FailsUntouched(r)
                    /\ SwapArgsChecked(p) => r.err = "SS:EXP"
              /\ swapExactTokensForTokens(Cur, sender, WithDeadline(p, now)).err
                    # "SS:EXP"

\* the pool is seeded by a deposit made at deadline == block.timestamp, and a
\* removal and a swap that go through at that deadline fail with SS:EXP one
\* second earlier
C21_Witness ==
    /\ LastAdd
    /\ last.p.deadline = now
    /\ \E sender \in Users :
          /\ \E p \in RemoveParams(sender) :
                /\ removeLiquidity(Cur, sender, WithDeadline(p, now)).err = ""
                /\ removeLiquidity(Cur, sender, WithDeadline(p, now - 1)).err = "SS:EXP"
          /\ \E p \in SwapParams(sender) :
                /\ swapExactTokensForTokens(Cur, sender, WithDeadline(p, now)).err = ""
                /\ swapExactTokensForTokens(Cur, sender, WithDeadline(p, now - 1)).err
                     = "SS:EXP"

\* the removals sender may try on the pool: both orders, every minimum, every
\* user as recipient, and as amount a small number, the position of any
\* holder, or one more than it
OverdrawParams(sender) ==
    { RemoveP(tp, l, mp, to, now) :
        tp \in TokenPairs,
        l \in {1} \cup { liquidity[<<TokenA, TokenB>>][u] + d : u \in Users, d \in {0, 1} },
        mp \in MinPairs, to \in Users }

\* C22: a removeLiquidity whose arguments pass the checks of the external
\* function fails with SS:ITL on a pool with totalLiquidity == 0 and, on a
\* pool with shares, with SS:ILB whenever liquidityAmt exceeds the position
\* of msg.sender, whatever the recipient or anyone else holds; in both cases
\* nothing is stored or transferred.
C22_OwnPositionChecked ==
    \A sender \in Users : \A p \in OverdrawParams(sender) :
        LET r == removeLiquidity(Cur, sender, p)
            total == pools[<<TokenA, TokenB>>].totalLiquidity
        IN  p.liquidityAmt > 0 =>
              /\ total = 0 => (r.err = "SS:ITL" /\ FailsUntouched(r))
              /\ (total > 0 /\ p.liquidityAmt > liquidity[<<TokenA, TokenB>>][sender]) =>
                    (r.err = "SS:ILB" /\ FailsUntouched(r))

\* the owner holds shares and the user holds fewer: the user asking for the
\* owner's shares, paid to the owner, is refused with SS:ILB, while the owner
\* asking for the same is served
C22_Witness ==
    /\ LastAdd
    /\ liquidity[<<TokenA, TokenB>>][Owner] > liquidity[<<TokenA, TokenB>>][User]
    /\ removeLiquidity(Cur, User,
            RemoveP(<<TokenA, TokenB>>, liquidity[<<TokenA, TokenB>>][Owner],
                    <<0, 0>>, Owner, now)).err = "SS:ILB"
    /\ removeLiquidity(Cur, Owner,
            RemoveP(<<TokenA, TokenB>>, liquidity[<<TokenA, TokenB>>][Owner],
                    <<0, 0>>, Owner, now)).err = ""

\* the failure conditions of addLiquidity that the claim tells apart, as
\* conditions on the call p in the state as it is: a desired amount is zero
ZeroAmountCase(p) ==
    /\ <<p.tokenA, p.tokenB>> \in TokenPairs
    /\ p.to # ZERO
    /\ p.amountADesired = 0 \/ p.amountBDesired = 0

\* p names a deposit on a pool with reserves for which the code computes amount0Optimal
OptimalACase(p) ==
    /\ <<p.tokenA, p.tokenB>> \in TokenPairs
    /\ AddArgsChecked(p)
    /\ p.deadline >= now
    /\ pools[<<TokenA, TokenB>>].reserveA > 0
    /\ pools[<<TokenA, TokenB>>].reserveB > 0
    /\ (p.amountADesired * pools[<<TokenA, TokenB>>].reserveB)
          \div pools[<<TokenA, TokenB>>].reserveA > p.amountBDesired

\* amount0Optimal of the call p (line 346)
Amount0Optimal(p) ==
    (p.amountBDesired * pools[<<TokenA, TokenB>>].reserveA)
        \div pools[<<TokenA, TokenB>>].reserveB

\* the optimal A is above the desired A
InsufficientACase(p) == OptimalACase(p) /\ Amount0Optimal(p) > p.amountADesired

\* the optimal A is within the desired A and below the minimum A
SlippageACase(p) ==
    /\ OptimalACase(p)
    /\ Amount0Optimal(p) <= p.amountADesired
    /\ Amount0Optimal(p) < p.amountAMin

\* the error codes addLiquidity gives, in the state as it is, to the calls of kind Case
AddCodes(Case(_)) ==
    { addLiquidity(Cur, sender, p).err :
        sender \in Users, p \in { q \in UNION { AddParams(u) : u \in Users } : Case(q) } }

\* the error codes of removeLiquidity's rejection of liquidityAmt == 0
ZeroLiquidityCodes ==
    { removeLiquidity(Cur, sender, p).err :
        sender \in Users,
        p \in { q \in UNION { RemoveParams(u) : u \in Users } :
                  /\ q.tokenA # ZERO /\ q.tokenB # ZERO
                  /\ q.to # ZERO
                  /\ q.liquidityAmt = 0 } }

\* the error codes of getAmountOut's rejection of a zero reserve
ZeroReserveCodes ==
    { getAmountOut(amountIn, rs[1], rs[2]).err :
        amountIn \in SwapAmounts, rs \in {<<0, 0>>, <<0, 1>>, <<1, 0>>} }

\* C23: the failure conditions have codes that tell them apart: in
\* addLiquidity a zero desired amount, an optimal A above amountADesired and
\* an optimal A below amountAMin get pairwise different codes, and
\* removeLiquidity's rejection of zero liquidity gets a code different from
\* that of getAmountOut's rejection of a zero reserve.
C23_ErrorCodesDistinct ==
    /\ AddCodes(ZeroAmountCase) \cap AddCodes(InsufficientACase) = {}
    /\ AddCodes(ZeroAmountCase) \cap AddCodes(SlippageACase) = {}
    /\ AddCodes(InsufficientACase) \cap AddCodes(SlippageACase) = {}
    /\ ZeroLiquidityCodes \cap ZeroReserveCodes = {}

\* C25: on a pool with both reserves above zero, getPrice(tokenA, tokenB)
\* returns floor(reserve of tokenB * 1e18 / reserve of tokenA), the reserves
\* being those of the tokens the caller named tokenA and tokenB, so that
\* exchanging the arguments exchanges numerator and denominator.
C25_PriceOfNamedTokens ==
    (pools[<<TokenA, TokenB>>].reserveA > 0 /\ pools[<<TokenA, TokenB>>].reserveB > 0) =>
        \A tp \in TokenPairs :
            /\ getPrice(Cur, tp[1], tp[2]).err = ""
            /\ getPrice(Cur, tp[1], tp[2]).price
                  = (ReserveOf(Cur, tp[2], tp[1]) * PRICE_SCALE)
                        \div ReserveOf(Cur, tp[1], tp[2])

\* a swap has left the two reserves unequal, and the two prices differ
C25_Witness ==
    /\ LastSwap
    /\ pools[<<TokenA, TokenB>>].reserveA > pools[<<TokenA, TokenB>>].reserveB
    /\ getPrice(Cur, TokenA, TokenB).err = ""
    /\ getPrice(Cur, TokenA, TokenB).price < PRICE_SCALE
    /\ getPrice(Cur, TokenB, TokenA).price > PRICE_SCALE

\* C26: on a pool whose reserves are zero, never seeded or drained by
\* removeLiquidity, getReserves and getPrice in either token order and every
\* swapExactTokensForTokens with otherwise valid arguments fail with SS:RNI,
\* the swap before any store or token transfer.
C26_EmptyPoolRejects ==
    (pools[<<TokenA, TokenB>>].reserveA = 0 /\ pools[<<TokenA, TokenB>>].reserveB = 0) =>
        /\ \A tp \in TokenPairs :
              /\ getReserves(Cur, tp[1], tp[2]).err = "SS:RNI"
              /\ getPrice(Cur, tp[1], tp[2]).err = "SS:RNI"
        /\ \A sender \in Users : \A p \in SwapParams(sender) :
              (SwapArgsValid(p) /\ <<p.path[1], p.path[2]>> \in TokenPairs) =>
                  LET r == swapExactTokensForTokens(Cur, sender, p) IN
                  r.err = "SS:RNI" /\ FailsUntouched(r)

\* a removal has drained a pool that had reserves, and a swap with valid
\* arguments is refused with SS:RNI
C26_Witness ==
    /\ LastRemove
    /\ PoolOf(last.pre, TokenA, TokenB).reserveA > 0
    /\ PoolOf(last.pre, TokenA, TokenB).reserveB > 0
    /\ pools[<<TokenA, TokenB>>] = EmptyPool
    /\ \E sender \in Users : \E p \in SwapParams(sender) :
          /\ SwapArgsValid(p)
          /\ swapExactTokensForTokens(Cur, sender, p).err = "SS:RNI"

\* the output of the constant product without fee, as the test computes it:
\* amountIn * reserveOut / (reserveIn + amountIn)
ConstantProductOut(amountIn, reserveIn, reserveOut) ==
    (amountIn * reserveOut) \div (reserveIn + amountIn)

\* C27: on a pool with reserves, a swap of amountIn that the caller can pay,
\* submitted with amountOutMin = floor(amountIn * reserveOut / (reserveIn +
\* amountIn)), goes through and credits the recipient at least that amount.
C27_ConstantProductMinAccepted ==
    \A sender \in Users : \A p \in SwapParams(sender) :
        (/\ SwapArgsValid(p)
         /\ <<p.path[1], p.path[2]>> \in TokenPairs
         /\ getReserves(Cur, p.path[1], p.path[2]).err = ""
         /\ ReserveOf(Cur, p.path[1], p.path[2]) + p.amountIn <= MAX_UINT112
         /\ balanceOf[p.path[1]][sender] >= p.amountIn) =>
            LET rs == getReserves(Cur, p.path[1], p.path[2])
                min == ConstantProductOut(p.amountIn, rs.reserveA, rs.reserveB)
                r == swapExactTokensForTokens(Cur, sender, [p EXCEPT !.amountOutMin = min])
            IN  /\ r.err = ""
                /\ r.st.balanceOf[p.path[2]][p.to] >= balanceOf[p.path[2]][p.to] + min

\* C28: on a pool with reserves, an addLiquidity(token0, token1, ...) that
\* the caller can pay, with amountBDesired so large that amountBDesired *
\* reserve0 / reserve1 > amountADesired and with amountAMin above
\* amountADesired, reverts with SS:INA.
C28_LargeBRejected ==
    \A sender \in Users : \A p \in AddParams(sender) :
        (/\ <<p.tokenA, p.tokenB>> = <<TokenA, TokenB>>
         /\ AddArgsChecked(p)
         /\ p.deadline >= now
         /\ Affordable(Cur, sender, p)
         /\ pools[<<TokenA, TokenB>>].reserveA > 0
         /\ pools[<<TokenA, TokenB>>].reserveB > 0
         /\ Amount0Optimal(p) > p.amountADesired
         /\ p.amountAMin > p.amountADesired) =>
            addLiquidity(Cur, sender, p).err = "SS:INA"

\* two identical non-zero tokens; a zero token paired with a non-zero one
IdenticalPairs == { <<t, t>> : t \in Tokens }
ZeroPairs == { <<ZERO, t>> : t \in Tokens } \cup { <<t, ZERO>> : t \in Tokens }

\* the call p of addLiquidity or removeLiquidity, naming the tokens tp
WithTokens(p, tp) == [p EXCEPT !.tokenA = tp[1], !.tokenB = tp[2]]
\* the swap p along the path tp
WithPath(p, tp) == [p EXCEPT !.path = tp]

\* what every call named in C29 does when given the tokens tp, which are
\* refused with code: the views fail with code; addLiquidity, removeLiquidity
\* and the swap fail before any store or transfer, with code when their
\* other arguments are valid
RefusedWith(tp, code) ==
    /\ getReserves(Cur, tp[1], tp[2]).err = code
    /\ getPrice(Cur, tp[1], tp[2]).err = code
    /\ \A u \in Users : getLiquidity(Cur, tp[1], tp[2], u).err = code
    /\ \A sender \in Users :
          /\ \A p \in AddParams(sender) :
                <<p.tokenA, p.tokenB>> = <<TokenA, TokenB>> =>
                    LET r == addLiquidity(Cur, sender, WithTokens(p, tp)) IN
                    /\ FailsUntouched(r)
                    /\ (p.to # ZERO /\ p.amountADesired > 0 /\ p.amountBDesired > 0
                          /\ p.deadline >= now) => r.err = code
          /\ \A p \in RemoveParams(sender) :
                <<p.tokenA, p.tokenB>> = <<TokenA, TokenB>> =>
                    LET r == removeLiquidity(Cur, sender, WithTokens(p, tp)) IN
                    /\ FailsUntouched(r)
                    /\ (p.to # ZERO /\ p.liquidityAmt > 0 /\ p.deadline >= now)
                          => r.err = code
          /\ \A p \in SwapParams(sender) :
                p.path = <<TokenA, TokenB>> =>
                    LET r == swapExactTokensForTokens(Cur, sender, WithPath(p, tp)) IN
                    /\ FailsUntouched(r)
                    /\ (p.to # ZERO /\ p.amountIn > 0 /\ p.deadline >= now)
                          => r.err = code

\* C29: no pool record and no position is ever non-zero under a key other
\* than (token0, token1) with 0 < token0 < token1; addLiquidity,
\* removeLiquidity, the swap, getReserves, getPrice and getLiquidity given
\* two identical non-zero tokens fail with SS:IA, and given a zero token
\* paired with a non-zero token fail with SS:IZA, without writing state.
C29_CanonicalKeysOnly ==
    /\ \A k \in DOMAIN pools :
          ~(ZERO < k[1] /\ k[1] < k[2]) =>
              /\ pools[k] = EmptyPool
              /\ \A u \in Users : liquidity[k][u] = 0
    /\ \A tp \in IdenticalPairs : RefusedWith(tp, "SS:IA")
    /\ \A tp \in ZeroPairs : RefusedWith(tp, "SS:IZA")

\* both users hold a position in the pool, which an addLiquidity naming the
\* tokens in the order (token1, token0) has written to, and the removal and
\* the swap that go through on the pair are refused on (TokenA, TokenA)
C29_Witness ==
    /\ LastAdd
    /\ last.p.tokenA = TokenB
    /\ liquidity[<<TokenA, TokenB>>][Owner] > 0
    /\ liquidity[<<TokenA, TokenB>>][User] > 0
    /\ \E sender \in Users :
          /\ \E p \in RemoveParams(sender) :
                /\ removeLiquidity(Cur, sender, p).err = ""
                /\ removeLiquidity(Cur, sender, WithTokens(p, <<TokenA, TokenA>>)).err
                     = "SS:IA"
          /\ \E p \in SwapParams(sender) :
                /\ swapExactTokensForTokens(Cur, sender, p).err = ""
                /\ swapExactTokensForTokens(Cur, sender,
                        WithPath(p, <<ZERO, TokenB>>)).err = "SS:IZA"

----------------------------------------------------------------------------
(* Claims on getAmountOut alone (SpecQuote) *)

\* getAmountOut has returned a value
Quoted == last.op = "getAmountOut" /\ last.err = ""

\* C24: getAmountOut is monotone over the inputs it accepts: with the other
\* two arguments fixed, its value does not decrease when amountIn grows, does
\* not decrease when reserveOut grows and does not increase when reserveIn
\* grows.
C24_QuoteMonotone ==
    Quoted =>
        /\ \A amountIn \in QuoteValues : amountIn >= last.p.amountIn =>
              /\ getAmountOut(amountIn, last.p.reserveIn, last.p.reserveOut).err = ""
              /\ getAmountOut(amountIn, last.p.reserveIn, last.p.reserveOut).amountOut
                    >= last.amountOut
        /\ \A reserveOut \in QuoteValues : reserveOut >= last.p.reserveOut =>
              /\ getAmountOut(last.p.amountIn, last.p.reserveIn, reserveOut).err = ""
              /\ getAmountOut(last.p.amountIn, last.p.reserveIn, reserveOut).amountOut
                    >= last.amountOut
        /\ \A reserveIn \in QuoteValues : reserveIn >= last.p.reserveIn =>
              /\ getAmountOut(last.p.amountIn, reserveIn, last.p.reserveOut).err = ""
              /\ getAmountOut(last.p.amountIn, reserveIn, last.p.reserveOut).amountOut
                    <= last.amountOut

\* a quote that is positive, that a larger amountIn and a larger reserveOut
\* raise and a larger reserveIn lowers
C24_Witness ==
    /\ Quoted
    /\ last.amountOut > 0
    /\ \E amountIn \in QuoteValues :
          /\ amountIn > last.p.amountIn
          /\ getAmountOut(amountIn, last.p.reserveIn, last.p.reserveOut).amountOut
                > last.amountOut
    /\ \E reserveOut \in QuoteValues :
          /\ reserveOut > last.p.reserveOut
          /\ getAmountOut(last.p.amountIn, last.p.reserveIn, reserveOut).amountOut
                > last.amountOut
    /\ \E reserveIn \in QuoteValues :
          /\ reserveIn > last.p.reserveIn
          /\ getAmountOut(last.p.amountIn, reserveIn, last.p.reserveOut).amountOut
                < last.amountOut

----------------------------------------------------------------------------
(* Claims on reads while a call is in flight (SpecCalls) *)

\* C30: while a call that changes a pool is in flight, no getReserves,
\* getPrice or getLiquidity of that pool issued from within a callback of a
\* token transfer of that call returns successfully; in particular none
\* returns the reserves as they were before the call once tokens of the call
\* have moved.
C30_NoReadInFlight ==
    InToken =>
        \A tp \in TokenPairs :
            /\ getReserves(Cur, tp[1], tp[2]).err # ""
            /\ getPrice(Cur, tp[1], tp[2]).err # ""
            /\ \A u \in Users : getLiquidity(Cur, tp[1], tp[2], u).err # ""
----------------------------------------------------------------------------
(* Claims on the bounds of getAmountOut (SpecQuote) *)

\* the storage and ledger after the owner has seeded the fresh pool with
\* reserveA of TokenA and reserveB of TokenB
Seeded(reserveA, reserveB) ==
    addLiquidity(Deployed, Owner,
                 AddP(<<TokenA, TokenB>>, <<reserveA, reserveB>>, <<0, 0>>, Owner, now))

\* the swap of the quoted amountIn, by the user, along path, on the pool
\* seeded with the quoted reserves (reserveIn for the first token of path)
QuotedSwap(path) ==
    swapExactTokensForTokens(
        IF path[1] = TokenA THEN Seeded(last.p.reserveIn, last.p.reserveOut).st
                            ELSE Seeded(last.p.reserveOut, last.p.reserveIn).st,
        User, SwapP(last.p.amountIn, 0, path, User, now))

\* C31: every value getAmountOut returns for amountIn > 0, reserveIn > 0 and
\* reserveOut > 0 is strictly below reserveOut; the swap of that amountIn on
\* a pool holding those reserves never fails on the subtraction reserveOut -
\* amountOut and, when it goes through, leaves both reserves above 0, the
\* output reserve at reserveOut - amountOut.
C31_QuoteBelowReserve ==
    Quoted =>
        /\ last.amountOut < last.p.reserveOut
        /\ \A path \in TokenPairs :
              Seeded(last.p.reserveIn, last.p.reserveOut).err = "" =>
                  /\ QuotedSwap(path).err # "Panic(0x11)"
                  /\ QuotedSwap(path).err = "" =>
                        /\ ReserveOf(QuotedSwap(path).st, path[1], path[2]) > 0
                        /\ ReserveOf(QuotedSwap(path).st, path[2], path[1]) > 0
                        /\ ReserveOf(QuotedSwap(path).st, path[2], path[1])
                              = last.p.reserveOut - last.amountOut

\* a quote one below the output reserve, whose swap goes through in both
\* directions and leaves the output reserve at 1
C31_Witness ==
    /\ Quoted
    /\ last.amountOut > 0
    /\ last.amountOut = last.p.reserveOut - 1
    /\ \A path \in TokenPairs :
          /\ QuotedSwap(path).err = ""
          /\ ReserveOf(QuotedSwap(path).st, path[2], path[1]) = 1
----------------------------------------------------------------------------
(* Claims on sqrt alone (SpecSqrt) *)

\* sqrt has returned
Rooted == last.op = "sqrt"

\* C32: sqrt(y) returns, for every y >= 0, the integer floor of the square
\* root of y: its result z has z*z <= y < (z+1)*(z+1); it is 0 for y = 0 and
\* 1 for y in 1..3.
C32_SqrtIsFloorRoot ==
    Rooted =>
        /\ last.z >= 0
        /\ last.z * last.z <= last.p.y
        /\ last.p.y < (last.z + 1) * (last.z + 1)
        /\ last.p.y = 0 => last.z = 0
        /\ last.p.y \in 1..3 => last.z = 1

\* the loop has run on a value that is no perfect square and has come down
\* from its first guess, as it has for the 10000 of the test
C32_Witness ==
    /\ Rooted
    /\ last.p.y > 3
    /\ last.z * last.z < last.p.y
    /\ last.z < (last.p.y \div 2) + 1
    /\ sqrt(10000) = 100
    /\ sqrt(16) = 4
----------------------------------------------------------------------------
(* Claims on the smallest bootstrap (Spec) *)

\* the deposits of 1 unit of each token that sender may make, in either
\* token order and to either user, and that it holds the tokens for
UnitDeposits(sender) ==
    { AddP(tp, <<1, 1>>, <<0, 0>>, to, now) : tp \in TokenPairs, to \in Users }

\* C33: a bootstrap deposit of 1 unit of each token into an empty pool
\* yields sqrt(1 * 1) = 1 share and goes through: it is not rejected with
\* SS:ILM, the pool is left with reserves (1, 1) and totalLiquidity 1, and
\* the recipient holds 1 share more.
C33_UnitBootstrapAccepted ==
    pools[<<TokenA, TokenB>>] = EmptyPool =>
        \A sender \in Users : \A p \in UnitDeposits(sender) :
            Affordable(Cur, sender, p) =>
                LET r == addLiquidity(Cur, sender, p) IN
                /\ r.err = ""
                /\ r.ret.liquidityMinted = 1
                /\ r.st.pools[<<TokenA, TokenB>>]
                      = [reserveA |-> 1, reserveB |-> 1, totalLiquidity |-> 1]
                /\ r.st.liquidity[<<TokenA, TokenB>>][p.to]
                      = liquidity[<<TokenA, TokenB>>][p.to] + 1

\* the statement as the spec has it: a bootstrap deposit of 1 unit of each
\* token into an empty pool is rejected with SS:ILM
C33_UnitBootstrapRejected ==
    pools[<<TokenA, TokenB>>] = EmptyPool =>
        \A sender \in Users : \A p \in UnitDeposits(sender) :
            Affordable(Cur, sender, p) =>
                addLiquidity(Cur, sender, p).err = "SS:ILM"

\* the empty pool has been seeded with 1 unit of each token for 1 share
C33_Witness ==
    /\ LastAdd
    /\ PoolOf(last.pre, TokenA, TokenB) = EmptyPool
    /\ last.p.amountADesired = 1
    /\ last.p.amountBDesired = 1
    /\ last.ret.liquidityMinted = 1
    /\ pools[<<TokenA, TokenB>>] = [reserveA |-> 1, reserveB |-> 1, totalLiquidity |-> 1]
    /\ liquidity[<<TokenA, TokenB>>][last.p.to] = 1
----------------------------------------------------------------------------
(* Claims on who may change a position (Spec) *)

\* the key of the pool the last call named
LastKey ==
    IF LastSwap
    THEN <<sortTokens(last.p.path[1], last.p.path[2]).token0,
           sortTokens(last.p.path[1], last.p.path[2]).token1>>
    ELSE <<sortTokens(last.p.tokenA, last.p.tokenB).token0,
           sortTokens(last.p.tokenA, last.p.tokenB).token1>>

\* the positions of every holder other than u in the pool key, and every
\* position and share total under another key, are as the last call found them
OthersUntouched(key, u) ==
    /\ \A v \in Users \ {u} : liquidity[key][v] = last.pre.liquidity[key][v]
    /\ \A k \in DOMAIN pools \ {key} :
          /\ liquidity[k] = last.pre.liquidity[k]
          /\ pools[k] = last.pre.pools[k]

\* C34: a successful addLiquidity raises the position of its recipient by
\* exactly the shares it minted and changes no other position; a successful
\* removeLiquidity lowers the position of its caller by exactly liquidityAmt
\* and changes no other position; a successful swap changes no position and
\* no totalLiquidity; no call changes a position or a share total of another
\* pool.
C34_PositionsFrame ==
    /\ LastAdd =>
          /\ liquidity[LastKey][last.p.to]
                = last.pre.liquidity[LastKey][last.p.to] + last.ret.liquidityMinted
          /\ OthersUntouched(LastKey, last.p.to)
    /\ LastRemove =>
          /\ liquidity[LastKey][last.sender]
                = last.pre.liquidity[LastKey][last.sender] - last.p.liquidityAmt
          /\ OthersUntouched(LastKey, last.sender)
    /\ LastSwap =>
          /\ liquidity = last.pre.liquidity
          /\ \A k \in DOMAIN pools :
                pools[k].totalLiquidity = last.pre.pools[k].totalLiquidity
----------------------------------------------------------------------------
(* Claims on what backs the reserves and the shares (Spec) *)

\* the stored reserves of token t, summed over every pool record that holds t
ReservesOf(st, t) ==
    SumOver([k \in DOMAIN st.pools |->
                (IF k[1] = t THEN st.pools[k].reserveA ELSE 0)
                + (IF k[2] = t THEN st.pools[k].reserveB ELSE 0)],
            DOMAIN st.pools)

\* C35: in every state between transactions and for every token, the
\* contract's balance of the token in the token's ledger is at least the sum
\* of the stored reserves of that token over all pools.
C35_Solvent ==
    \A t \in Tokens : balanceOf[t][THIS] >= ReservesOf(Cur, t)

\* a swap has taken one token in and paid the other out, and the contract
\* holds of each token exactly what the reserves say
C35_Witness ==
    /\ LastSwap
    /\ last.ret.amountOut > 0
    /\ \A t \in Tokens :
          /\ ReservesOf(Cur, t) > 0
          /\ balanceOf[t][THIS] = ReservesOf(Cur, t)

\* C36: in every state every pool has reserve0 * reserve1 >= totalLiquidity
\* * totalLiquidity: no deposit, withdrawal or swap brings the product of
\* the reserves below the square of the shares in issue.
C36_SharesBacked ==
    \A k \in DOMAIN pools :
        pools[k].reserveA * pools[k].reserveB
            >= pools[k].totalLiquidity * pools[k].totalLiquidity
----------------------------------------------------------------------------
(* Claims on withdrawals and deposits going through (Spec) *)

\* the withdrawals of sender that ask for no minimum: every amount up to its
\* position, either token order, every user as recipient, a deadline that
\* has not passed
FreeRemovals(sender) ==
    { RemoveP(tp, L, <<0, 0>>, to, d) :
        tp \in TokenPairs, L \in 1..liquidity[<<TokenA, TokenB>>][sender],
        to \in Users, d \in {now, now + 1} }

\* C37: in every state, every holder with a position s > 0 can withdraw any
\* L with 0 < L <= s: removeLiquidity called by the holder for L shares with
\* amountAMin = amountBMin = 0, a non-zero recipient and an unexpired
\* deadline succeeds.
C37_WithdrawalGoesThrough ==
    \A sender \in Users : \A p \in FreeRemovals(sender) :
        removeLiquidity(Cur, sender, p).err = ""

\* C38: every successful addLiquidity takes a strictly positive amount of
\* both tokens from the caller and mints a strictly positive number of
\* shares, which the recipient holds afterwards on top of what it held; no
\* successful deposit takes 0 of either token.
C38_DepositTwoSided ==
    LastAdd =>
        /\ last.ret.amountA > 0
        /\ last.ret.amountB > 0
        /\ last.pre.balanceOf[last.p.tokenA][last.sender]
              - balanceOf[last.p.tokenA][last.sender] > 0
        /\ last.pre.balanceOf[last.p.tokenB][last.sender]
              - balanceOf[last.p.tokenB][last.sender] > 0
        /\ last.ret.liquidityMinted > 0
        /\ liquidity[LastKey][last.p.to] > last.pre.liquidity[LastKey][last.p.to]
----------------------------------------------------------------------------
(* Claims on the release of the guard (SpecCalls) *)

\* every call a user may make from outside
TopLevelCalls ==
    { [op |-> "addLiquidity", sender |-> sender, p |-> p] :
        sender \in Users, p \in UNION { StepAddParams(u) : u \in Users } }
    \cup { [op |-> "removeLiquidity", sender |-> sender, p |-> p] :
             sender \in Users, p \in UNION { StepRemoveParams(u) : u \in Users } }
    \cup { [op |-> "swapExactTokensForTokens", sender |-> sender, p |-> p] :
             sender \in Users, p \in UNION { StepSwapParams(u) : u \in Users } }

\* the guard is free, and lets every call from outside in
GuardFree ==
    /\ _status = NOT_ENTERED
    /\ \A c \in TopLevelCalls :
          nonReentrant(_status, Cur, Run(c.op, Cur, c.sender, c.p)).err
              # "ReentrancyGuardReentrantCall"

\* C39: the guard is held only while a call is in flight: whenever no call
\* is in flight the guard is free and no call from outside is rejected
\* because of it, and the step that ends an addLiquidity, a removeLiquidity
\* or a swap, by return or by revert after any number of effects, leaves the
\* guard free.
C39_GuardReleased ==
    /\ [](frame.op = "none" => GuardFree)
    /\ [][ (frame.op # "none" /\ frame'.op = "none") => _status' = NOT_ENTERED ]_vars

\* a call has gone through and released the guard, a second call has been
\* let in after it, has made an effect and holds the guard, and is about to
\* revert
C39_Witness ==
    /\ txs = 1
    /\ frame.op # "none"
    /\ _status = ENTERED
    /\ frame.pc >= 1
    /\ frame.pc = Len(FrameRun.steps)
    /\ FrameRun.err # ""

====
